---- MODULE Spec2Model ----
(***************************************************************************)
(* A model of pandoras-box: the fund distributor, the workload runtimes,   *)
(* the signer, the batcher, the statistics collector and the top-level     *)
(* run().  Each subsystem has its own specification over its own group of  *)
(* variables; the other groups stay at their idle values.                  *)
(*                                                                         *)
(* Arrays of the source are 0-based, sequences here are 1-based: position  *)
(* i of the source is position i + 1 here.  Addresses of the mnemonic      *)
(* accounts are modelled by their derivation index (0 is the root).        *)
(***************************************************************************)
EXTENDS Integers, Sequences, FiniteSets, TLC

VARIABLES
    \* ---- Engine.Run: signer, runtime construction, request building
    numTxs,              \* ctx.numTxs
    batchSize,           \* ctx.batchSize
    accountIndexes,      \* ctx.accountIndexes, the ready list
    chainNonce,          \* on-chain transaction count of every account
    accounts,            \* senderAccount[] of getSenderAccounts
    rawTransactions,     \* TransactionRequest[] of ConstructTransactions
    signedTransactions,  \* string[] of signTransactions
    signErrors,          \* failedTxnSignErrors.length
    signFailures,        \* positions whose signTransaction threw
    requests,            \* the eth_sendRawTransaction requests, per batch
    enginePc,
    \* ---- runtime descriptor
    mode,                \* RuntimeType of the run
    gasPrice,            \* runtime.gasPrice (P)
    gasEstimation,       \* runtime.gasEstimation (G)
    \* ---- Distributor (native funds) and the node's view of the balances
    requestedSubAccounts,  \* K
    totalTx,               \* N
    balance,               \* on-chain native balance of every account
    pendingTransfers,      \* funding transfers the node accepted, not mined
    baseCosts,             \* runtimeCosts of calculateRuntimeCosts
    shortAddresses,        \* the Heap's node array
    readyMnemonicIndexes,
    accountsToFund,        \* of getFundableAccounts
    distributorBalance,    \* running root balance of getFundableAccounts
    lastPopped,            \* <<acc>> of the latest initialSet.pop(), or <<>>
    distPc,
    distError,
    \* ---- the top-level run() of src/index.ts
    runPc,
    runError,              \* the error run() rejected with, "none" otherwise
    exitStatus,            \* exit status of the process
    submittedTxs,          \* workload transactions posted by Engine.Run
    tokenPc,               \* progress of TokenDistributor.distributeTokens
    outputWritten,         \* Outputter.outputData was invoked
    collectedBlocks,       \* size of collectorData.blockInfo
    \* ---- Batcher.batchTransactions
    signedTxs,             \* its input
    postedBatches,         \* the batches of generateBatches, as posted
    postState,             \* per batch POST: "inflight", "ok" or "failed"
    responses,             \* per batch: the response array of the node
    txHashes,
    batchErrors,
    batcherPc,
    \* ---- StatCollector.gatherTransactionReceipts
    submittedHashes,       \* the txHashes handed to the collector
    receipts,              \* the node: receipt of every hash, if any yet
    remainingTransactions,
    succeededTransactions,
    fetchErrors,
    retryCounter,
    polled,                \* hashes the individual fallback loop has passed
    receiptBatchSize,
    receiptBatches,        \* the batches of the sweep in progress
    receiptPostState,      \* per batch POST: "inflight", "ok" or "failed"
    receiptResponses,      \* per batch: the response array of the node
    chainHeight,           \* the node: number of the latest block
    collectorPc,
    collectorError,
    \* ---- StatCollector.calcTPS
    stats,                 \* its input: the block of every txStats
    blockTimestamp,        \* the node: timestamp of every block
    failedBlocks,          \* blocks for which provider.getBlock throws
    avgTPS,
    tpsPc,
    \* ---- StatCollector of src/stats/collector.ts: waitForTxPoolToEmpty
    \* and the receipt loop that follows it
    txpoolStatus,          \* the node: what txpool_status answers
    pending,
    queued,
    stopFlag,
    clock,                 \* time since the wait began, in units of 500 ms
    wakeAt,                \* when the 2 s pause of the poll loop ends
    pollPc,                \* "polling", "sleeping" or "returned"
    isOk,                  \* "racing", then "true" or "false"
    blocksMap,
    txToBlockMap,
    \* ---- TokenDistributor.distributeTokens and its caller
    tokenTotalTx,
    tokenBalance,          \* the token contract: balance of every sub-account
    supplierBalance,       \* the token contract: balance of the supplier
    nativeReady,           \* accountIndexes of run(), as distribute() gave it
    tokenReadyIndexes,     \* this.readyMnemonicIndexes of the TokenDistributor
    tokenCosts,
    tokenShort,
    tokenAccountsToFund,
    tokenDistributorBalance,
    engineIndexes,         \* ctx.accountIndexes of the EngineContext
    tokenDistPc,
    \* ---- a later run of distribute() on the balances an earlier one left
    distRun,               \* 1 in the first run, 2 in the second
    firstReady,            \* what the first run returned
    carriedBalance,        \* the balances when the second run began
    \* ---- the node that receives the batches of eth_sendRawTransaction
    arrived,               \* the batches that have reached the node
    nodePool,              \* <<sender, nonce>> of the transactions it holds
    executed               \* <<sender, nonce>> of those it has executed

runtimeVars == <<mode, gasPrice, gasEstimation>>

distVars == <<requestedSubAccounts, totalTx, balance, pendingTransfers,
              baseCosts, shortAddresses, readyMnemonicIndexes, accountsToFund,
              distributorBalance, lastPopped, distPc, distError>>

runVars == <<runPc, runError, exitStatus, submittedTxs, tokenPc, outputWritten,
             collectedBlocks>>

batcherVars == <<signedTxs, postedBatches, postState, responses, txHashes,
                 batchErrors, batcherPc>>

collectorVars == <<submittedHashes, receipts, remainingTransactions,
                   succeededTransactions, fetchErrors, retryCounter,
                   polled, receiptBatchSize, receiptBatches,
                   receiptPostState, receiptResponses, chainHeight,
                   collectorPc, collectorError>>

tpsVars == <<stats, blockTimestamp, failedBlocks, avgTPS, tpsPc>>

engineVars == <<numTxs, batchSize, accountIndexes, chainNonce, accounts,
                rawTransactions, signedTransactions, signErrors, signFailures,
                requests, enginePc>>

poolVars == <<txpoolStatus, pending, queued, stopFlag, clock, wakeAt, pollPc,
              isOk, blocksMap, txToBlockMap>>

tokenVars == <<tokenTotalTx, tokenBalance, supplierBalance, nativeReady,
               tokenReadyIndexes, tokenCosts, tokenShort, tokenAccountsToFund,
               tokenDistributorBalance, engineIndexes, tokenDistPc>>

rerunVars == <<distRun, firstReady, carriedBalance>>

nodeVars == <<arrived, nodePool, executed>>

vars == <<runtimeVars, engineVars, distVars, runVars, batcherVars,
          collectorVars, tpsVars, poolVars, tokenVars, rerunVars, nodeVars>>

\* what the actions of one subsystem leave alone
outsideEngine == <<distVars, runVars, batcherVars, collectorVars, tpsVars,
                   poolVars, tokenVars, rerunVars, nodeVars>>
outsideDist == <<engineVars, batcherVars, collectorVars, tpsVars, poolVars,
                 tokenVars, rerunVars, nodeVars>>
outsideBatcher == <<runtimeVars, engineVars, distVars, runVars,
                    collectorVars, tpsVars, poolVars, tokenVars, rerunVars, nodeVars>>
outsideCollector == <<runtimeVars, engineVars, distVars, runVars,
                      batcherVars, tpsVars, poolVars, tokenVars, rerunVars, nodeVars>>
outsideTps == <<runtimeVars, engineVars, distVars, runVars, batcherVars,
                collectorVars, poolVars, tokenVars, rerunVars, nodeVars>>
outsidePool == <<runtimeVars, engineVars, distVars, runVars, batcherVars,
                 tpsVars, tokenVars, rerunVars, nodeVars>>
outsideNode == <<runtimeVars, engineVars, distVars, runVars, batcherVars,
                 collectorVars, tpsVars, poolVars, tokenVars, rerunVars>>
outsideToken == <<runtimeVars, engineVars, distVars, runVars, batcherVars,
                  collectorVars, tpsVars, poolVars, rerunVars, nodeVars>>

----------------------------------------------------------------------------
(* Bounds of the model *)

MaxAccounts == 3
MaxTx == 4
MaxNonce == 1
MaxBalance == 2
MaxRootBalance == 6
MaxHashes == 2        \* hashes whose receipts the node may produce at any time
BulkHashes == 40      \* further hashes, mined before the collector starts
MaxBatches == 2       \* batches of one receipt sweep
MaxHeight == 3        \* blocks of the chain
MaxStats == 2         \* txStats handed to calcTPS
MaxBlock == 2         \* highest block a txStats names
MaxTime == 2          \* highest block timestamp
PoolBulkHashes == 4   \* further hashes handed to the pool wait, all mined
MaxSupply == 6        \* tokens the deployer holds after the deployment
MaxConstructTx == 5   \* transactions of one construction

----------------------------------------------------------------------------
(* The value of each group of variables while its subsystem is not run *)

RuntimeIdle == mode = "EOA" /\ gasPrice = 0 /\ gasEstimation = 0

EngineIdle ==
    /\ numTxs = 0 /\ batchSize = 1
    /\ accountIndexes = <<>> /\ chainNonce = <<>>
    /\ accounts = <<>> /\ rawTransactions = <<>>
    /\ signedTransactions = <<>> /\ signErrors = 0 /\ signFailures = {}
    /\ requests = <<>>
    /\ enginePc = "idle"

DistIdle ==
    /\ requestedSubAccounts = 0 /\ totalTx = 0
    /\ balance = <<>> /\ pendingTransfers = <<>>
    /\ baseCosts = [accDistributionCost |-> 0, subAccount |-> 0]
    /\ shortAddresses = <<>> /\ readyMnemonicIndexes = <<>>
    /\ accountsToFund = <<>> /\ distributorBalance = 0
    /\ lastPopped = <<>> /\ distPc = "idle" /\ distError = "none"

RunIdle ==
    /\ runPc = "idle" /\ runError = "none" /\ exitStatus = 0
    /\ submittedTxs = 0 /\ tokenPc = "idle" /\ outputWritten = FALSE
    /\ collectedBlocks = 0

BatcherIdle ==
    /\ signedTxs = <<>> /\ postedBatches = <<>> /\ postState = <<>>
    /\ responses = <<>> /\ txHashes = <<>> /\ batchErrors = <<>>
    /\ batcherPc = "idle"

CollectorIdle ==
    /\ submittedHashes = <<>> /\ receipts = <<>>
    /\ remainingTransactions = <<>> /\ succeededTransactions = <<>>
    /\ fetchErrors = <<>> /\ retryCounter = 0 /\ polled = 0
    /\ receiptBatchSize = 1 /\ receiptBatches = <<>>
    /\ receiptPostState = <<>> /\ receiptResponses = <<>>
    /\ chainHeight = 0
    /\ collectorPc = "idle"
    /\ collectorError = [kind |-> "none", txHash |-> 0]

TpsIdle ==
    /\ stats = <<>> /\ blockTimestamp = <<>> /\ failedBlocks = {}
    /\ avgTPS = [kind |-> "none", value |-> 0] /\ tpsPc = "idle"

PoolIdle ==
    /\ txpoolStatus = <<>> /\ pending = <<>> /\ queued = <<>>
    /\ stopFlag = FALSE /\ clock = 0 /\ wakeAt = 0
    /\ pollPc = "idle" /\ isOk = "idle"
    /\ blocksMap = {} /\ txToBlockMap = {}

TokenIdle ==
    /\ tokenTotalTx = 0 /\ tokenBalance = <<>> /\ supplierBalance = 0
    /\ nativeReady = <<>> /\ tokenReadyIndexes = <<>>
    /\ tokenCosts = [totalCost |-> 0, subAccount |-> 0]
    /\ tokenShort = <<>> /\ tokenAccountsToFund = <<>>
    /\ tokenDistributorBalance = 0 /\ engineIndexes = <<>>
    /\ tokenDistPc = "idle"

RerunIdle == distRun = 1 /\ firstReady = <<>> /\ carriedBalance = <<>>

NodeIdle == arrived = {} /\ nodePool = {} /\ executed = {}

LaterIdle == PoolIdle /\ TokenIdle /\ RerunIdle /\ NodeIdle

----------------------------------------------------------------------------
(* Generic helpers *)

Range(s) == {s[i] : i \in DOMAIN s}

Min(a, b) == IF a < b THEN a ELSE b

\* Math.ceil(a / b) for a >= 0, b > 0
CeilDiv(a, b) == (a + b - 1) \div b

RECURSIVE Flatten(_)
Flatten(ss) == IF ss = <<>> THEN <<>> ELSE Head(ss) \o Flatten(Tail(ss))

\* All sequences without repetition over S (the shapes a ready list takes)
InjectiveSeqs(S) ==
    UNION {{s \in [1..k -> S] : \A i, j \in 1..k : i # j => s[i] # s[j]}
           : k \in 0..Cardinality(S)}

----------------------------------------------------------------------------
(* Runtime descriptors: src/runtime/{eoa,erc20,erc721}.ts *)

Modes == {"EOA", "ERC20", "ERC721"}

NoAddress == 0 - 1

\* the deployed token / NFT contract the transactions are sent to
contractAddress(m) == IF m = "ERC20" THEN -20 ELSE -721

\* EOARuntime.defaultValue: 0.0001 native units, taken as the unit of value
defaultValue == 1

GetValue(m) == IF m = "EOA" THEN defaultValue ELSE 0

\* ERC20Runtime.defaultTransferValue
defaultTransferValue == 1

----------------------------------------------------------------------------
(* senderAccount: src/runtime/signer.ts *)

senderAccount(index, nonce) ==
    [mnemonicIndex |-> index, nonce |-> nonce, address |-> index]

\* a counter that leaves out every other nonce
incrNonceByTwo(accs, k) == [accs EXCEPT ![k].nonce = @ + 2]

incrNonce(accs, k) == [accs EXCEPT ![k].nonce = @ + 1]

\* a variant that initializes every index of the list
getSenderAccountsAll(indexes, n, nonceOf) ==
    [i \in 1..Len(indexes) |-> senderAccount(indexes[i], nonceOf[indexes[i]])]

\* Signer.getSenderAccounts: the first min(|indexes|, numTxs) indexes, each
\* with the transaction count the node reports for it
getSenderAccounts(indexes, n, nonceOf) ==
    LET walletsToInit == IF Len(indexes) > n THEN n ELSE Len(indexes)
    IN [i \in 1..walletsToInit |-> senderAccount(indexes[i], nonceOf[indexes[i]])]

----------------------------------------------------------------------------
(* ConstructTransactions of the three runtimes *)

\* The loops of EOARuntime.ConstructTransactions as the list of
\* <<sender position, receiver position>> (0-based) in push order: account i
\* sends floor(numTx / numAccounts) transactions in a row, transaction j of
\* them to account (i + j) mod numAccounts; the last account then sends the
\* numTx mod numAccounts remaining ones to account 0.
EOASchedule(numAccounts, numTx) ==
    LET txsPerAccount == numTx \div numAccounts
        remainingTxs == numTx % numAccounts
        main == [p \in 1..(numAccounts * txsPerAccount) |->
                    LET i == (p - 1) \div txsPerAccount
                        j == (p - 1) % txsPerAccount
                    IN <<i, (i + j) % numAccounts>>]
        rest == [r \in 1..remainingTxs |-> <<numAccounts - 1, 0>>]
    IN main \o rest

\* ERC20Runtime.ConstructTransactions: the same loops, receiver (i + j + 1)
ERC20Schedule(numAccounts, numTx) ==
    LET txsPerAccount == numTx \div numAccounts
        remainingTxs == numTx % numAccounts
        main == [p \in 1..(numAccounts * txsPerAccount) |->
                    LET i == (p - 1) \div txsPerAccount
                        j == (p - 1) % txsPerAccount
                    IN <<i, (i + j + 1) % numAccounts>>]
        rest == [r \in 1..remainingTxs |-> <<numAccounts - 1, 0>>]
    IN main \o rest

\* ERC721Runtime.ConstructTransactions: round-robin senders, no receiver
ERC721Schedule(numAccounts, numTx) ==
    [p \in 1..numTx |-> <<(p - 1) % numAccounts, (p - 1) % numAccounts>>]

\* a variant of the loops without the remaining transactions
ScheduleNoRemainder(m, numAccounts, numTx) ==
    CASE m = "ERC721" -> ERC721Schedule(numAccounts, numTx)
      [] OTHER ->
            LET txsPerAccount == numTx \div numAccounts
            IN [p \in 1..(numAccounts * txsPerAccount) |->
                   LET i == (p - 1) \div txsPerAccount
                       j == (p - 1) % txsPerAccount
                   IN <<i, (i + j) % numAccounts>>]

Schedule(m, numAccounts, numTx) ==
    CASE m = "EOA" -> EOASchedule(numAccounts, numTx)
      [] m = "ERC20" -> ERC20Schedule(numAccounts, numTx)
      [] OTHER -> ERC721Schedule(numAccounts, numTx)

\* the request EOARuntime pushes: a value transfer to the receiver
EOATransaction(sender, receiver, P, G) ==
    [from |-> sender.address, to |-> receiver.address,
     tokenTo |-> NoAddress, tokenAmount |-> 0,
     gasPrice |-> P, gasLimit |-> G, value |-> defaultValue,
     nonce |-> sender.nonce]

\* ERC20Runtime.createTransferTransaction: transfer(receiver, 1) on the
\* token contract, gas price and gas limit scaled by 150 / 100
createTransferTransaction(sender, receiver, P, G) ==
    [from |-> sender.address, to |-> contractAddress("ERC20"),
     tokenTo |-> receiver.address, tokenAmount |-> defaultTransferValue,
     gasPrice |-> (P * 150) \div 100, gasLimit |-> (G * 150) \div 100,
     value |-> 0, nonce |-> sender.nonce]

\* the request ERC721Runtime pushes: createNFT(tokenURI) on the NFT contract
ERC721Transaction(sender, P, G) ==
    [from |-> sender.address, to |-> contractAddress("ERC721"),
     tokenTo |-> NoAddress, tokenAmount |-> 0,
     gasPrice |-> P, gasLimit |-> G, value |-> 0,
     nonce |-> sender.nonce]

TransactionRequest(m, sender, receiver, P, G) ==
    CASE m = "EOA" -> EOATransaction(sender, receiver, P, G)
      [] m = "ERC20" -> createTransferTransaction(sender, receiver, P, G)
      [] OTHER -> ERC721Transaction(sender, P, G)

\* One iteration of a construction loop: push the request carrying the
\* sender's current nonce, then sender.incrNonce()
ConstructStepNoIncr(m, st, pair, P, G) ==
    [accounts |-> st.accounts,
     transactions |-> Append(st.transactions,
        TransactionRequest(m, st.accounts[pair[1] + 1],
                           st.accounts[pair[2] + 1], P, G))]

ConstructStep(m, st, pair, P, G) ==
    [accounts |-> incrNonce(st.accounts, pair[1] + 1),
     transactions |-> Append(st.transactions,
        TransactionRequest(m, st.accounts[pair[1] + 1],
                           st.accounts[pair[2] + 1], P, G))]

RECURSIVE ConstructLoop(_, _, _, _, _)
ConstructLoop(m, st, sched, P, G) ==
    IF sched = <<>> THEN st
    ELSE ConstructLoop(m, ConstructStep(m, st, Head(sched), P, G),
                       Tail(sched), P, G)

\* runtime.ConstructTransactions(accounts, numTx): the requests and the
\* accounts with their nonces advanced
ConstructTransactions(m, accs, numTx, P, G) ==
    ConstructLoop(m, [accounts |-> accs, transactions |-> <<>>],
                  Schedule(m, Len(accs), numTx), P, G)

----------------------------------------------------------------------------
(* Signer.signTransactions *)

\* Wallet.signTransaction of ethers rejects a request whose `from` is not
\* the signing wallet's address; a signing can also fail for other reasons
\* (the positions in `failing`).
SignSucceeds(accs, txs, i, failing) ==
    /\ txs[i].from = accs[((i - 1) % Len(accs)) + 1].address
    /\ i \notin failing

RECURSIVE SelectSigned(_, _, _, _)
SelectSigned(accs, txs, i, failing) ==
    IF i > Len(txs) THEN <<>>
    ELSE (IF SignSucceeds(accs, txs, i, failing) THEN <<txs[i]>> ELSE <<>>)
         \o SelectSigned(accs, txs, i + 1, failing)

\* a variant that stops at the first failure
RECURSIVE SelectSignedUntilFailure(_, _, _, _)
SelectSignedUntilFailure(accs, txs, i, failing) ==
    IF i > Len(txs) \/ ~SignSucceeds(accs, txs, i, failing) THEN <<>>
    ELSE <<txs[i]>> \o SelectSignedUntilFailure(accs, txs, i + 1, failing)

signTransactionsUntilFailure(accs, txs, failing) ==
    SelectSignedUntilFailure(accs, txs, 1, failing)

\* the signed transactions, in the order of the loop; failures are skipped
signTransactions(accs, txs, failing) == SelectSigned(accs, txs, 1, failing)

----------------------------------------------------------------------------
(* Batcher.generateBatches and the request ids: src/runtime/batcher.ts *)

\* push items one by one into batches[currentBatch]; move to the next batch
\* when the current one's length is a multiple of batchSize
RECURSIVE FillBatches(_, _, _, _)
FillBatches(batches, currentBatch, items, size) ==
    IF items = <<>> THEN batches
    ELSE LET pushed == [batches EXCEPT ![currentBatch] = Append(@, Head(items))]
             next == IF Len(pushed[currentBatch]) % size = 0
                     THEN currentBatch + 1 ELSE currentBatch
         \* the values of the next iteration are bound once, so that their
         \* evaluation does not repeat that of all earlier iterations
         IN CHOOSE filled \in
                {FillBatches(b, c, rest, size) :
                    <<b, c, rest>> \in {<<pushed, next, Tail(items)>>}} : TRUE

\* a variant that leaves out a last batch shorter than batchSize
generateBatchesDropShort(items, size) ==
    LET numBatches == IF CeilDiv(Len(items), size) = 0 THEN 1
                      ELSE CeilDiv(Len(items), size)
        bs == FillBatches([b \in 1..numBatches |-> <<>>], 1, items, size)
    IN IF Len(bs) > 1 /\ Len(bs[Len(bs)]) < size
       THEN SubSeq(bs, 1, Len(bs) - 1) ELSE bs

generateBatchesReversed(items, size) ==
    LET n == Len(items)
        rev == [i \in 1..n |-> items[n + 1 - i]]
        numBatches == IF CeilDiv(n, size) = 0 THEN 1 ELSE CeilDiv(n, size)
    IN FillBatches([b \in 1..numBatches |-> <<>>], 1, rev, size)

generateBatches(items, size) ==
    LET numBatches == IF CeilDiv(Len(items), size) = 0 THEN 1
                      ELSE CeilDiv(Len(items), size)
    IN FillBatches([b \in 1..numBatches |-> <<>>], 1, items, size)

\* number of items in the batches before batch b
RECURSIVE ItemsBefore(_, _)
ItemsBefore(batches, b) ==
    IF b <= 1 THEN 0 ELSE Len(batches[b - 1]) + ItemsBefore(batches, b - 1)

\* the JSON-RPC requests of batchTransactions: ids from nextIndx++, counted
\* across the batches in map order
BuildRequests(batches) ==
    [b \in 1..Len(batches) |->
        [i \in 1..Len(batches[b]) |->
            [id |-> ItemsBefore(batches, b) + i - 1,
             method |-> "eth_sendRawTransaction",
             params |-> batches[b][i]]]]

----------------------------------------------------------------------------
(* The heap package as Distributor uses it: new Heap<distributeAccount>()  *)
(* is built without a comparator, so the package's default comparator      *)
(* (x < y ? -1 : x > y ? 1 : 0) is applied to distributeAccount objects.   *)

distributeAccount(missingFunds, index) ==
    [missingFunds |-> missingFunds, address |-> index, mnemonicIndex |-> index]

\* a comparator keyed by the shortfall
cmpByMissingFunds(x, y) ==
    IF x.missingFunds < y.missingFunds THEN -1
    ELSE IF x.missingFunds > y.missingFunds THEN 1 ELSE 0

\* `x < y` and `x > y` on two plain objects compare their string forms,
\* "[object Object]" for both: neither holds and the comparator answers 0
defaultCmp(x, y) == 0

\* _siftdown(array, startpos, pos) of the heap package (0-based positions)
RECURSIVE siftdown(_, _, _, _)
siftdown(array, startpos, pos, newitem) ==
    IF pos > startpos
    THEN LET parentpos == (pos - 1) \div 2
             parent == array[parentpos + 1]
         IN IF defaultCmp(newitem, parent) < 0
            THEN siftdown([array EXCEPT ![pos + 1] = parent],
                          startpos, parentpos, newitem)
            ELSE [array EXCEPT ![pos + 1] = newitem]
    ELSE [array EXCEPT ![pos + 1] = newitem]

\* the loop of _siftup(array, pos): move the chosen child up until a leaf is
\* reached, then put newitem there and sift it down
RECURSIVE siftup(_, _, _, _)
siftup(array, startpos, pos, newitem) ==
    LET endpos == Len(array)
        childpos == 2 * pos + 1
        rightpos == childpos + 1
    IN IF childpos < endpos
       THEN LET c == IF /\ rightpos < endpos
                        /\ ~(defaultCmp(array[childpos + 1],
                                        array[rightpos + 1]) < 0)
                     THEN rightpos ELSE childpos
            IN siftup([array EXCEPT ![pos + 1] = array[c + 1]],
                      startpos, c, newitem)
       ELSE siftdown([array EXCEPT ![pos + 1] = newitem],
                     startpos, pos, newitem)

\* Heap.push(item): append, then _siftdown(nodes, 0, length - 1)
heappush(nodes, item) ==
    LET appended == Append(nodes, item)
    IN siftdown(appended, 0, Len(appended) - 1, item)

\* Heap.pop(): the root is returned; the last element replaces it and is
\* sifted
heappop(nodes) ==
    LET lastelt == nodes[Len(nodes)]
        shrunk == SubSeq(nodes, 1, Len(nodes) - 1)
    IN IF shrunk = <<>>
       THEN [item |-> lastelt, nodes |-> <<>>]
       ELSE [item |-> shrunk[1],
             nodes |-> siftup([shrunk EXCEPT ![1] = lastelt], 0, 0, lastelt)]

----------------------------------------------------------------------------
(* Distributor: src/distributor/distributor.ts (latest revision)           *)

\* calculateRuntimeCosts: subAccountCost = totalTx * (gasPrice * gasLimit
\* + value)
subAccountCost(m, n, P, G) == n * (P * G + GetValue(m))

\* a variant that also takes an account holding exactly singleRunCost as
\* short
RECURSIVE findAccountsForDistributionLte(_, _, _, _, _)
findAccountsForDistributionLte(i, K, bal, singleRunCost, st) ==
    IF i > K THEN st
    ELSE findAccountsForDistributionLte(i + 1, K, bal, singleRunCost,
            IF bal[i] <= singleRunCost
            THEN [st EXCEPT !.heap =
                    heappush(@, distributeAccount(singleRunCost - bal[i], i))]
            ELSE [st EXCEPT !.ready = Append(@, i)])

\* findAccountsForDistribution: for i = 1..K, push the short accounts onto
\* the heap and the funded ones onto readyMnemonicIndexes
RECURSIVE findAccountsForDistribution(_, _, _, _, _)
findAccountsForDistribution(i, K, bal, singleRunCost, st) ==
    IF i > K THEN st
    ELSE findAccountsForDistribution(i + 1, K, bal, singleRunCost,
            IF bal[i] < singleRunCost
            THEN [st EXCEPT !.heap =
                    heappush(@, distributeAccount(singleRunCost - bal[i], i))]
            ELSE [st EXCEPT !.ready = Append(@, i)])

\* what the root has to pay for one funding transfer: the value plus the
\* estimated gas at the gas price
TransferCost(t) == t.value + t.gas * t.gasPrice

RECURSIVE SumCost(_)
SumCost(pool) ==
    IF pool = <<>> THEN 0 ELSE TransferCost(Head(pool)) + SumCost(Tail(pool))

\* the node takes a transfer into its pool when the sender can pay for it
\* on top of what it already has pending
NodeAccepts(bal, pool, t) == bal[0] - SumCost(pool) >= TransferCost(t)

DistInit ==
    /\ mode \in {"EOA", "ERC20"}
    /\ gasPrice \in {1, 2}
    /\ gasEstimation = 1
    /\ requestedSubAccounts \in 1..MaxAccounts
    /\ totalTx \in 1..2
    /\ balance \in [0..MaxAccounts -> 0..MaxRootBalance]
    /\ \A i \in 1..MaxAccounts :
          balance[i] <= (IF i <= requestedSubAccounts THEN MaxBalance ELSE 0)
    /\ pendingTransfers = <<>>
    /\ baseCosts = [accDistributionCost |-> 0, subAccount |-> 0]
    /\ shortAddresses = <<>> /\ readyMnemonicIndexes = <<>>
    /\ accountsToFund = <<>> /\ distributorBalance = 0
    /\ lastPopped = <<>> /\ distPc = "start" /\ distError = "none"
    /\ EngineIdle /\ BatcherIdle /\ CollectorIdle /\ TpsIdle /\ LaterIdle

SpecDistributorInit == DistInit /\ RunIdle

\* calculateRuntimeCosts(): the node's gas estimate of one funding transfer
\* is an input
CalculateRuntimeCosts ==
    /\ distPc = "start"
    /\ \E d \in {1, 2} :
          baseCosts' = [accDistributionCost |-> d,
                        subAccount |-> subAccountCost(mode, totalTx,
                                                      gasPrice, gasEstimation)]
    /\ distPc' = "costs"
    /\ UNCHANGED <<requestedSubAccounts, totalTx, balance, pendingTransfers,
                   shortAddresses, readyMnemonicIndexes, accountsToFund,
                   distributorBalance, lastPopped, distError,
                   runtimeVars, runVars, outsideDist>>

\* findAccountsForDistribution(baseCosts.subAccount), and the return of
\* distribute() when no account is short
FindAccounts ==
    /\ distPc = "costs"
    /\ LET r == findAccountsForDistribution(1, requestedSubAccounts, balance,
                    baseCosts.subAccount,
                    [heap |-> <<>>, ready |-> readyMnemonicIndexes])
       IN /\ shortAddresses' = r.heap
          /\ readyMnemonicIndexes' = r.ready
          /\ distPc' = IF Len(r.heap) = 0 THEN "done" ELSE "fundable"
    /\ distributorBalance' = balance[0]
    /\ UNCHANGED <<requestedSubAccounts, totalTx, balance, pendingTransfers,
                   baseCosts, accountsToFund, lastPopped, distError,
                   runtimeVars, runVars, outsideDist>>

\* one iteration of the loop of getFundableAccounts
PopFundable ==
    /\ distPc = "fundable"
    /\ distributorBalance > baseCosts.accDistributionCost
    /\ Len(shortAddresses) > 0
    /\ LET r == heappop(shortAddresses)
       IN /\ shortAddresses' = r.nodes
          /\ lastPopped' = <<r.item>>
          /\ distributorBalance' = distributorBalance - r.item.missingFunds
          /\ accountsToFund' = Append(accountsToFund, r.item)
    /\ UNCHANGED <<requestedSubAccounts, totalTx, balance, pendingTransfers,
                   baseCosts, readyMnemonicIndexes, distPc, distError,
                   runtimeVars, runVars, outsideDist>>

\* a variant of the end of the loop that fails whenever an account was left
\* unselected
EndFundableAnyLeft ==
    /\ distPc = "fundable"
    /\ ~(/\ distributorBalance > baseCosts.accDistributionCost
         /\ Len(shortAddresses) > 0)
    /\ IF Len(accountsToFund) = 0 \/ Len(shortAddresses) > 0
       THEN distPc' = "failed" /\ distError' = "errNotEnoughFunds"
       ELSE distPc' = "funding" /\ distError' = distError
    /\ UNCHANGED <<requestedSubAccounts, totalTx, balance, pendingTransfers,
                   baseCosts, shortAddresses, readyMnemonicIndexes,
                   accountsToFund, distributorBalance, lastPopped,
                   runtimeVars, runVars, outsideDist>>

\* the loop of getFundableAccounts ends: errNotEnoughFunds when nothing
\* was selected
EndFundable ==
    /\ distPc = "fundable"
    /\ ~(/\ distributorBalance > baseCosts.accDistributionCost
         /\ Len(shortAddresses) > 0)
    /\ IF Len(accountsToFund) = 0
       THEN distPc' = "failed" /\ distError' = "errNotEnoughFunds"
       ELSE distPc' = "funding" /\ distError' = distError
    /\ UNCHANGED <<requestedSubAccounts, totalTx, balance, pendingTransfers,
                   baseCosts, shortAddresses, readyMnemonicIndexes,
                   accountsToFund, distributorBalance, lastPopped,
                   runtimeVars, runVars, outsideDist>>

\* one iteration of the loop of fundAccounts: await sendTransaction (it
\* resolves once the node has taken the transfer, or throws), then push the
\* index onto readyMnemonicIndexes
FundAccount ==
    /\ distPc = "funding"
    /\ accountsToFund # <<>>
    /\ LET acc == Head(accountsToFund)
           t == [to |-> acc.address, value |-> acc.missingFunds,
                 gas |-> baseCosts.accDistributionCost, gasPrice |-> gasPrice]
       IN IF NodeAccepts(balance, pendingTransfers, t)
          THEN /\ pendingTransfers' = Append(pendingTransfers, t)
               /\ readyMnemonicIndexes' =
                     Append(readyMnemonicIndexes, acc.mnemonicIndex)
               /\ accountsToFund' = Tail(accountsToFund)
               /\ UNCHANGED <<distPc, distError>>
          ELSE /\ distPc' = "failed"
               /\ distError' = "sendTransaction"
               /\ UNCHANGED <<pendingTransfers, readyMnemonicIndexes,
                              accountsToFund>>
    /\ UNCHANGED <<requestedSubAccounts, totalTx, balance, baseCosts,
                   shortAddresses, distributorBalance, lastPopped,
                   runtimeVars, runVars, outsideDist>>

\* fundAccounts and distribute() return
DistributeReturn ==
    /\ distPc = "funding"
    /\ accountsToFund = <<>>
    /\ distPc' = "done"
    /\ UNCHANGED <<requestedSubAccounts, totalTx, balance, pendingTransfers,
                   baseCosts, shortAddresses, readyMnemonicIndexes,
                   accountsToFund, distributorBalance, lastPopped, distError,
                   runtimeVars, runVars, outsideDist>>

\* the node mines the oldest pending funding transfer
MineTransfer ==
    /\ pendingTransfers # <<>>
    /\ LET t == Head(pendingTransfers)
       IN balance' = [balance EXCEPT ![0] = @ - TransferCost(t),
                                     ![t.to] = @ + t.value]
    /\ pendingTransfers' = Tail(pendingTransfers)
    /\ UNCHANGED <<requestedSubAccounts, totalTx, baseCosts, shortAddresses,
                   readyMnemonicIndexes, accountsToFund, distributorBalance,
                   lastPopped, distPc, distError, runtimeVars, runVars, outsideDist>>

DistNext ==
    \/ CalculateRuntimeCosts \/ FindAccounts \/ PopFundable \/ EndFundable
    \/ FundAccount \/ DistributeReturn \/ MineTransfer

SpecDistributor == SpecDistributorInit /\ [][DistNext]_vars

----------------------------------------------------------------------------
(* The revision of Distributor in src/distributor/distributor.ts, lines    *)
(* 45-250: calculateRuntimeCosts and findAccountsForDistribution           *)

\* the cost of a single cycle transaction: inherentValue.gt(0) ?
\* inherentValue.add(baseTxEstimate) : baseTxEstimate
transactionCost(V, baseTxEstimate) ==
    IF V > 0 THEN V + baseTxEstimate ELSE baseTxEstimate

\* calculateRuntimeCosts(): subAccountCost = transactionCost.mul(totalTx /
\* requestedSubAccounts); the quotient is a JavaScript number, and
\* BigNumber.mul throws on one that is not an integer
EarlyCalculateRuntimeCosts ==
    /\ distPc = "start"
    /\ IF totalTx % requestedSubAccounts # 0
       THEN /\ distPc' = "failed"
            /\ distError' = "NUMERIC_FAULT"
            /\ UNCHANGED baseCosts
       ELSE /\ \E d \in {1, 2} :
                  baseCosts' =
                     [accDistributionCost |-> d,
                      subAccount |->
                         transactionCost(GetValue(mode), gasEstimation)
                             * (totalTx \div requestedSubAccounts)]
            /\ distPc' = "costs"
            /\ UNCHANGED distError
    /\ UNCHANGED <<requestedSubAccounts, totalTx, balance, pendingTransfers,
                   shortAddresses, readyMnemonicIndexes, accountsToFund,
                   distributorBalance, lastPopped,
                   runtimeVars, runVars, outsideDist>>

\* findAccountsForDistribution(baseCosts.accDistributionCost)
EarlyFindAccounts ==
    /\ distPc = "costs"
    /\ LET r == findAccountsForDistribution(1, requestedSubAccounts, balance,
                    baseCosts.accDistributionCost,
                    [heap |-> <<>>, ready |-> readyMnemonicIndexes])
       IN /\ shortAddresses' = r.heap
          /\ readyMnemonicIndexes' = r.ready
    /\ distPc' = "found"
    /\ UNCHANGED <<requestedSubAccounts, totalTx, balance, pendingTransfers,
                   baseCosts, accountsToFund, distributorBalance, lastPopped,
                   distError, runtimeVars, runVars, outsideDist>>

EarlyNext == EarlyCalculateRuntimeCosts \/ EarlyFindAccounts

SpecEarlyDistributor == SpecDistributorInit /\ [][EarlyNext]_vars

----------------------------------------------------------------------------
(* A second run of the tool on the same chain: run() builds a new          *)
(* Distributor and calls distribute() again                                *)

\* new Distributor(...) of the second run, once the first distribute() has
\* returned and its transfers are mined: the fields start afresh, the
\* balances on the chain are the ones the first run left
Redistribute ==
    /\ distRun = 1
    /\ distPc = "done"
    /\ pendingTransfers = <<>>
    /\ distRun' = 2
    /\ firstReady' = readyMnemonicIndexes
    /\ carriedBalance' = balance
    /\ readyMnemonicIndexes' = <<>>
    /\ baseCosts' = [accDistributionCost |-> 0, subAccount |-> 0]
    /\ shortAddresses' = <<>> /\ accountsToFund' = <<>>
    /\ distributorBalance' = 0 /\ lastPopped' = <<>>
    /\ distPc' = "start"
    /\ UNCHANGED <<requestedSubAccounts, totalTx, balance, pendingTransfers,
                   distError, runtimeVars, runVars, engineVars, batcherVars,
                   collectorVars, tpsVars, poolVars, tokenVars, nodeVars>>

RedistributeNext == DistNext \/ Redistribute

SpecRedistribute == SpecDistributorInit /\ [][RedistributeNext]_vars

----------------------------------------------------------------------------
(* TokenDistributor: src/distributor/tokenDistributor.ts, and the part of  *)
(* run() around it                                                         *)

\* ERC20Runtime.GetTransferValue()
GetTransferValue == defaultTransferValue

\* calculateRuntimeCosts: totalCost = transferValue * totalTx, subAccountCost
\* = Math.ceil(totalCost / readyMnemonicIndexes.length)
tokenRuntimeCosts(n, ready) ==
    [totalCost |-> GetTransferValue * n,
     subAccount |-> CeilDiv(GetTransferValue * n, Len(ready))]

\* findAccountsForDistribution of the token distributor: for each index of
\* readyMnemonicIndexes, push it onto the heap when its token balance is
\* below singleRunCost
RECURSIVE tokenFindAccountsForDistribution(_, _, _, _)
tokenFindAccountsForDistribution(indexes, bal, singleRunCost, heap) ==
    IF indexes = <<>> THEN heap
    ELSE tokenFindAccountsForDistribution(Tail(indexes), bal, singleRunCost,
            IF bal[Head(indexes)] < singleRunCost
            THEN heappush(heap, distributeAccount(
                                    singleRunCost - bal[Head(indexes)],
                                    Head(indexes)))
            ELSE heap)

\* the state run() is in when it builds the TokenDistributor: Initialize()
\* has deployed a new token contract whose whole supply is the deployer's,
\* and distribute() has returned the natively ready indexes
TokenInit ==
    /\ tokenTotalTx \in 1..MaxTx
    /\ nativeReady \in InjectiveSeqs(1..MaxAccounts) \ {<<>>}
    /\ tokenReadyIndexes = nativeReady
    /\ tokenBalance = [i \in 1..MaxAccounts |-> 0]
    /\ supplierBalance \in 1..MaxSupply
    /\ tokenCosts = [totalCost |-> 0, subAccount |-> 0]
    /\ tokenShort = <<>> /\ tokenAccountsToFund = <<>>
    /\ tokenDistributorBalance = 0 /\ engineIndexes = <<>>
    /\ tokenDistPc = "start"
    /\ RuntimeIdle /\ EngineIdle /\ DistIdle /\ RunIdle /\ BatcherIdle
    /\ CollectorIdle /\ TpsIdle /\ PoolIdle /\ RerunIdle /\ NodeIdle

\* calculateRuntimeCosts()
TokenCalculateRuntimeCosts ==
    /\ tokenDistPc = "start"
    /\ tokenCosts' = tokenRuntimeCosts(tokenTotalTx, tokenReadyIndexes)
    /\ tokenDistPc' = "costs"
    /\ UNCHANGED <<tokenTotalTx, tokenBalance, supplierBalance, nativeReady,
                   tokenReadyIndexes, tokenShort, tokenAccountsToFund,
                   tokenDistributorBalance, engineIndexes, outsideToken>>

\* findAccountsForDistribution(baseCosts.subAccount), the return of
\* distributeTokens() when no account is short, and GetSupplierBalance()
TokenFindAccounts ==
    /\ tokenDistPc = "costs"
    /\ tokenShort' = tokenFindAccountsForDistribution(tokenReadyIndexes,
                         tokenBalance, tokenCosts.subAccount, <<>>)
    /\ tokenDistPc' = IF Len(tokenShort') = 0 THEN "returned" ELSE "fundable"
    /\ tokenDistributorBalance' = supplierBalance
    /\ UNCHANGED <<tokenTotalTx, tokenBalance, supplierBalance, nativeReady,
                   tokenReadyIndexes, tokenCosts, tokenAccountsToFund,
                   engineIndexes, outsideToken>>

\* one iteration of the loop of getFundableAccounts
TokenPopFundable ==
    /\ tokenDistPc = "fundable"
    /\ tokenDistributorBalance > tokenCosts.subAccount
    /\ Len(tokenShort) > 0
    /\ LET r == heappop(tokenShort)
       IN /\ tokenShort' = r.nodes
          /\ tokenDistributorBalance' =
                tokenDistributorBalance - r.item.missingFunds
          /\ tokenAccountsToFund' = Append(tokenAccountsToFund, r.item)
    /\ UNCHANGED <<tokenTotalTx, tokenBalance, supplierBalance, nativeReady,
                   tokenReadyIndexes, tokenCosts, engineIndexes, tokenDistPc,
                   outsideToken>>

\* the loop ends: errNotEnoughFunds when nothing was selected; otherwise
\* fundAccounts starts by clearing readyMnemonicIndexes
TokenEndFundable ==
    /\ tokenDistPc = "fundable"
    /\ ~(/\ tokenDistributorBalance > tokenCosts.subAccount
         /\ Len(tokenShort) > 0)
    /\ IF Len(tokenAccountsToFund) = 0
       THEN /\ tokenDistPc' = "failed"
            /\ UNCHANGED tokenReadyIndexes
       ELSE /\ tokenDistPc' = "funding"
            /\ tokenReadyIndexes' = <<>>
    /\ UNCHANGED <<tokenTotalTx, tokenBalance, supplierBalance, nativeReady,
                   tokenCosts, tokenShort, tokenAccountsToFund,
                   tokenDistributorBalance, engineIndexes, outsideToken>>

\* one iteration of the loop of fundAccounts: FundAccount sends the token
\* transfer and waits until it is mined (a transfer of more than the
\* supplier holds reverts and FundAccount throws), then the index is pushed
TokenFundAccount ==
    /\ tokenDistPc = "funding"
    /\ tokenAccountsToFund # <<>>
    /\ LET acc == Head(tokenAccountsToFund)
       IN IF supplierBalance >= acc.missingFunds
          THEN /\ supplierBalance' = supplierBalance - acc.missingFunds
               /\ tokenBalance' = [tokenBalance EXCEPT
                                      ![acc.mnemonicIndex] = @ + acc.missingFunds]
               /\ tokenReadyIndexes' =
                     Append(tokenReadyIndexes, acc.mnemonicIndex)
               /\ tokenAccountsToFund' = Tail(tokenAccountsToFund)
               /\ UNCHANGED tokenDistPc
          ELSE /\ tokenDistPc' = "failed"
               /\ UNCHANGED <<supplierBalance, tokenBalance,
                              tokenReadyIndexes, tokenAccountsToFund>>
    /\ UNCHANGED <<tokenTotalTx, nativeReady, tokenCosts, tokenShort,
                   tokenDistributorBalance, engineIndexes, outsideToken>>

\* fundAccounts and distributeTokens() return this.readyMnemonicIndexes
TokenDistributeReturn ==
    /\ tokenDistPc = "funding"
    /\ tokenAccountsToFund = <<>>
    /\ tokenDistPc' = "returned"
    /\ UNCHANGED <<tokenTotalTx, tokenBalance, supplierBalance, nativeReady,
                   tokenReadyIndexes, tokenCosts, tokenShort,
                   tokenAccountsToFund, tokenDistributorBalance,
                   engineIndexes, outsideToken>>

\* run(): the value of await tokenDistributor.distributeTokens() is dropped
\* and Engine.Run gets new EngineContext(accountIndexes, ...), the list
\* distribute() returned
EngineContextIndexes ==
    /\ tokenDistPc = "returned"
    /\ engineIndexes' = nativeReady
    /\ tokenDistPc' = "engine"
    /\ UNCHANGED <<tokenTotalTx, tokenBalance, supplierBalance, nativeReady,
                   tokenReadyIndexes, tokenCosts, tokenShort,
                   tokenAccountsToFund, tokenDistributorBalance, outsideToken>>

TokenNext ==
    \/ TokenCalculateRuntimeCosts \/ TokenFindAccounts \/ TokenPopFundable
    \/ TokenEndFundable \/ TokenFundAccount \/ TokenDistributeReturn
    \/ EngineContextIndexes

SpecToken == TokenInit /\ [][TokenNext]_vars

\* TokenDistributor against any TokenRuntime: the token balances
\* GetTokenBalance reports for the ready accounts are inputs
TokenUnitInit ==
    /\ tokenTotalTx \in 1..MaxTx
    /\ nativeReady \in InjectiveSeqs(1..MaxAccounts) \ {<<>>}
    /\ tokenReadyIndexes = nativeReady
    /\ tokenBalance \in [1..MaxAccounts -> 0..MaxBalance]
    /\ \A i \in 1..MaxAccounts :
          i \notin Range(nativeReady) => tokenBalance[i] = 0
    /\ supplierBalance \in 1..MaxSupply
    /\ tokenCosts = [totalCost |-> 0, subAccount |-> 0]
    /\ tokenShort = <<>> /\ tokenAccountsToFund = <<>>
    /\ tokenDistributorBalance = 0 /\ engineIndexes = <<>>
    /\ tokenDistPc = "start"
    /\ RuntimeIdle /\ EngineIdle /\ DistIdle /\ RunIdle /\ BatcherIdle
    /\ CollectorIdle /\ TpsIdle /\ PoolIdle /\ RerunIdle /\ NodeIdle

SpecTokenUnit == TokenUnitInit /\ [][TokenNext]_vars

----------------------------------------------------------------------------
(* Engine.Run: src/runtime/engine.ts *)

EngineInit ==
    /\ mode \in Modes
    /\ numTxs \in 1..MaxTx
    /\ batchSize \in 1..MaxTx
    /\ accountIndexes \in InjectiveSeqs(1..MaxAccounts) \ {<<>>}
    /\ chainNonce \in [1..MaxAccounts -> 0..MaxNonce]
    /\ \A i \in 1..MaxAccounts :
          i \notin Range(accountIndexes) => chainNonce[i] = 0
    /\ gasPrice = 2 /\ gasEstimation = 3
    /\ accounts = <<>> /\ rawTransactions = <<>>
    /\ signedTransactions = <<>> /\ signErrors = 0 /\ signFailures = {}
    /\ requests = <<>>
    /\ enginePc = "start"
    /\ DistIdle /\ RunIdle /\ BatcherIdle /\ CollectorIdle /\ TpsIdle
    /\ LaterIdle

\* signer.getSenderAccounts(ctx.accountIndexes, ctx.numTxs)
GetSenderAccounts ==
    /\ enginePc = "start"
    /\ accounts' = getSenderAccounts(accountIndexes, numTxs, chainNonce)
    /\ enginePc' = "accounts"
    /\ UNCHANGED <<numTxs, batchSize, accountIndexes, chainNonce,
                   rawTransactions, signedTransactions, signErrors, signFailures,
                requests,
                   runtimeVars, outsideEngine>>

\* runtime.ConstructTransactions(accounts, ctx.numTxs)
Construct ==
    /\ enginePc = "accounts"
    /\ LET r == ConstructTransactions(mode, accounts, numTxs,
                                      gasPrice, gasEstimation)
       IN /\ rawTransactions' = r.transactions
          /\ accounts' = r.accounts
    /\ enginePc' = "constructed"
    /\ UNCHANGED <<numTxs, batchSize, accountIndexes, chainNonce,
                   signedTransactions, signErrors, signFailures, requests,
                   runtimeVars, outsideEngine>>

\* signer.signTransactions(accounts, rawTransactions)
Sign ==
    /\ enginePc = "constructed"
    /\ \E failing \in SUBSET (1..Len(rawTransactions)) :
          /\ signedTransactions' =
                signTransactions(accounts, rawTransactions, failing)
          /\ signErrors' = Len(rawTransactions) - Len(signedTransactions')
          /\ signFailures' =
                {i \in 1..Len(rawTransactions) :
                    ~SignSucceeds(accounts, rawTransactions, i, failing)}
    /\ enginePc' = "signed"
    /\ UNCHANGED <<numTxs, batchSize, accountIndexes, chainNonce,
                   accounts, rawTransactions, requests, runtimeVars, outsideEngine>>

\* Batcher.batchTransactions builds the batches and their requests
SendBatches ==
    /\ enginePc = "signed"
    /\ requests' = BuildRequests(generateBatches(signedTransactions, batchSize))
    /\ enginePc' = "sent"
    /\ UNCHANGED <<numTxs, batchSize, accountIndexes, chainNonce,
                   accounts, rawTransactions, signedTransactions, signErrors,
                   signFailures,
                   runtimeVars, outsideEngine>>

EngineNext == GetSenderAccounts \/ Construct \/ Sign \/ SendBatches

SpecEngine == EngineInit /\ [][EngineNext]_vars

----------------------------------------------------------------------------
(* Engine.Run over a wider range of transaction counts, the node reporting *)
(* a transaction count of 0 for every account                              *)

ConstructInit ==
    /\ mode \in Modes
    /\ numTxs \in 1..MaxConstructTx
    /\ batchSize = MaxConstructTx
    /\ accountIndexes \in InjectiveSeqs(1..MaxAccounts) \ {<<>>}
    /\ chainNonce = [i \in 1..MaxAccounts |-> 0]
    /\ gasPrice = 2 /\ gasEstimation = 3
    /\ accounts = <<>> /\ rawTransactions = <<>>
    /\ signedTransactions = <<>> /\ signErrors = 0 /\ signFailures = {}
    /\ requests = <<>>
    /\ enginePc = "start"
    /\ DistIdle /\ RunIdle /\ BatcherIdle /\ CollectorIdle /\ TpsIdle
    /\ LaterIdle

SpecConstruct == ConstructInit /\ [][EngineNext]_vars

----------------------------------------------------------------------------
(* Engine.Run with the node that receives the batches: the POSTs of        *)
(* batchTransactions are sent together and reach the node in any order.    *)
(* The node keeps a transaction in its pool until it has executed it, and  *)
(* executes the transaction of a sender whose nonce is the next one of     *)
(* that sender; txpool_status counts as pending the transactions that      *)
(* follow the sender's next nonce without a gap, as queued the others      *)

\* the nonce the node expects next from the account a
NodeExpected(a) == chainNonce[a] + Cardinality({t \in executed : t[1] = a})

NodePending ==
    {t \in nodePool :
        \A n \in NodeExpected(t[1])..t[2] : <<t[1], n>> \in nodePool}

NodeQueued == nodePool \ NodePending

\* the POST of batch b reaches the node, which takes its transactions into
\* the pool, a nonce below the sender's next one excepted
BatchArrives(b) ==
    /\ enginePc = "sent"
    /\ b \in DOMAIN requests /\ b \notin arrived
    /\ arrived' = arrived \cup {b}
    /\ nodePool' = nodePool \cup
          {t \in {<<requests[b][i].params.from, requests[b][i].params.nonce>> :
                     i \in DOMAIN requests[b]} : t[2] >= NodeExpected(t[1])}
    /\ UNCHANGED <<executed, outsideNode>>

\* the node executes a transaction whose nonce is its sender's next one
NodeExecute ==
    /\ \E t \in nodePool :
          /\ t[2] = NodeExpected(t[1])
          /\ nodePool' = nodePool \ {t}
          /\ executed' = executed \cup {t}
    /\ UNCHANGED <<arrived, outsideNode>>

NonceNext ==
    \/ EngineNext
    \/ \E b \in DOMAIN requests : BatchArrives(b)
    \/ NodeExecute

\* Engine.Run goes on, every POST reaches the node, the node executes what
\* it can
NonceFairness ==
    /\ WF_vars(EngineNext)
    /\ \A b \in 1..MaxTx : WF_vars(BatchArrives(b))
    /\ WF_vars(NodeExecute)

SpecNonce == EngineInit /\ [][NonceNext]_vars /\ NonceFairness

----------------------------------------------------------------------------
(* Batcher.batchTransactions: src/runtime/batcher.ts *)

\* the hash under which the node answers an accepted raw transaction
hashOfRaw(raw) == 100 + raw

\* the response array of the node to one posted batch: an error element for
\* the transactions of rejected, a result element for the others
BatchResponse(batch, firstId, rejected) ==
    [k \in 1..Len(batch) |->
        IF batch[k] \in rejected
        THEN [id |-> firstId + k - 1, error |-> [message |-> batch[k]]]
        ELSE [id |-> firstId + k - 1, result |-> hashOfRaw(batch[k])]]

\* a reading of the responses that puts every new hash in front of the list
RECURSIVE CollectResultsNewestFirst(_)
CollectResultsNewestFirst(content) ==
    IF content = <<>> THEN <<>>
    ELSE IF "error" \in DOMAIN Head(content)
         THEN CollectResultsNewestFirst(Tail(content))
         ELSE CollectResultsNewestFirst(Tail(content))
                 \o <<Head(content).result>>

\* the loops over responses[i].data
RECURSIVE CollectResults(_)
CollectResults(content) ==
    IF content = <<>> THEN <<>>
    ELSE IF "error" \in DOMAIN Head(content)
         THEN CollectResults(Tail(content))
         ELSE <<Head(content).result>> \o CollectResults(Tail(content))

RECURSIVE CollectErrors(_)
CollectErrors(content) ==
    IF content = <<>> THEN <<>>
    ELSE IF "error" \in DOMAIN Head(content)
         THEN <<Head(content).error.message>> \o CollectErrors(Tail(content))
         ELSE CollectErrors(Tail(content))

BatcherInit ==
    /\ \E n \in 0..MaxTx : signedTxs = [i \in 1..n |-> i]
    /\ postedBatches = <<>> /\ postState = <<>> /\ responses = <<>>
    /\ txHashes = <<>> /\ batchErrors = <<>>
    /\ batcherPc = "start"
    /\ RuntimeIdle /\ EngineIdle /\ DistIdle /\ RunIdle
    /\ CollectorIdle /\ TpsIdle /\ LaterIdle

\* generateBatches, then batches.map(... axios(...)): every batch is posted
\* before any response is awaited
PostBatches ==
    /\ batcherPc = "start"
    /\ \E size \in 1..MaxTx :
          postedBatches' = generateBatches(signedTxs, size)
    /\ postState' = [b \in 1..Len(postedBatches') |-> "inflight"]
    /\ responses' = [b \in 1..Len(postedBatches') |-> <<>>]
    /\ batcherPc' = "posted"
    /\ UNCHANGED <<signedTxs, txHashes, batchErrors, outsideBatcher>>

\* the node answers the POST of batch b
PostResolves(b) ==
    /\ postState[b] = "inflight"
    /\ \E rejected \in SUBSET Range(postedBatches[b]) :
          responses' = [responses EXCEPT ![b] =
              BatchResponse(postedBatches[b], ItemsBefore(postedBatches, b),
                            rejected)]
    /\ postState' = [postState EXCEPT ![b] = "ok"]
    /\ UNCHANGED <<signedTxs, postedBatches, txHashes, batchErrors, batcherPc,
                   outsideBatcher>>

\* the POST of batch b fails at the network level
PostRejects(b) ==
    /\ postState[b] = "inflight"
    /\ postState' = [postState EXCEPT ![b] = "failed"]
    /\ UNCHANGED <<signedTxs, postedBatches, responses, txHashes, batchErrors,
                   batcherPc, outsideBatcher>>

\* await Promise.all(...) resolves once every POST has: the responses are
\* read in batch order
AllPostsResolved ==
    /\ batcherPc = "posted"
    /\ \A b \in DOMAIN postState : postState[b] = "ok"
    /\ txHashes' = CollectResults(Flatten(responses))
    /\ batchErrors' = CollectErrors(Flatten(responses))
    /\ batcherPc' = "returned"
    /\ UNCHANGED <<signedTxs, postedBatches, postState, responses,
                   outsideBatcher>>

\* await Promise.all(...) rejects as soon as one POST has: the catch block
\* logs e.message, and txHashes is returned as it is
SomePostRejected ==
    /\ batcherPc = "posted"
    /\ \E b \in DOMAIN postState : postState[b] = "failed"
    /\ batcherPc' = "returned"
    /\ UNCHANGED <<signedTxs, postedBatches, postState, responses, txHashes,
                   batchErrors, outsideBatcher>>

BatcherNext ==
    \/ PostBatches
    \/ \E b \in DOMAIN postState : PostResolves(b)
    \/ \E b \in DOMAIN postState : PostRejects(b)
    \/ AllPostsResolved
    \/ SomePostRejected

SpecBatcher == BatcherInit /\ [][BatcherNext]_vars

----------------------------------------------------------------------------
(* StatCollector.gatherTransactionReceipts and fetchTransactionReceipts *)

NoReceipt == [status |-> "none", blockNumber |-> 0]

\* a block number as the JSON of the node carries it (a hex string) and as
\* an ethers receipt carries it (a number)
HexBlock(n) == [num |-> n, hex |-> TRUE]
NumBlock(n) == [num |-> n, hex |-> FALSE]

txStats(txHash, block) == [txHash |-> txHash, block |-> block]

\* the element of a batch response for the eth_getTransactionReceipt of h
\* that was requested under id
ReceiptItem(rcpts, h, id) ==
    IF rcpts[h].status = "none"
    THEN [id |-> id, hasResult |-> FALSE, transactionHash |-> h,
          status |-> "none", blockNumber |-> HexBlock(0)]
    ELSE [id |-> id, hasResult |-> TRUE, transactionHash |-> h,
          status |-> rcpts[h].status,
          blockNumber |-> HexBlock(rcpts[h].blockNumber)]

\* a budget that rounds down
RetryBudgetFloor(n) == (n * 25) \div 1000

\* Math.ceil(txHashes.length * 0.025)
RetryBudget(n) == CeilDiv(n * 25, 1000)

\* a reading of the response items that forgets the hashes without a result
RECURSIVE ReadReceiptsDropMissing(_, _)
ReadReceiptsDropMissing(pairs, acc) ==
    IF pairs = <<>> THEN acc
    ELSE LET batchItem == Head(pairs)[2]
         IN IF ~batchItem.hasResult
            THEN ReadReceiptsDropMissing(Tail(pairs), acc)
            ELSE IF batchItem.status = "0x0"
            THEN [acc EXCEPT !.failed = batchItem.transactionHash]
            ELSE ReadReceiptsDropMissing(Tail(pairs),
                    [acc EXCEPT !.succeeded =
                        Append(@, txStats(batchItem.transactionHash,
                                          batchItem.blockNumber))])

\* the loops of fetchTransactionReceipts over the response items, given as
\* pairs <<requested hash, item>> in batch order: result with the fields
\* succeeded and remaining, and failed, the hash of the first item with
\* status 0x0 reached (0 if none)
RECURSIVE ReadReceipts(_, _)
ReadReceipts(pairs, acc) ==
    IF pairs = <<>> THEN acc
    ELSE LET requested == Head(pairs)[1]
             batchItem == Head(pairs)[2]
         IN IF ~batchItem.hasResult
            THEN ReadReceipts(Tail(pairs),
                    [acc EXCEPT !.remaining = Append(@, requested)])
            ELSE IF batchItem.status = "0x0"
            THEN [acc EXCEPT !.failed = batchItem.transactionHash]
            ELSE ReadReceipts(Tail(pairs),
                    [acc EXCEPT !.succeeded =
                        Append(@, txStats(batchItem.transactionHash,
                                          batchItem.blockNumber))])

\* the requested hash next to every response item, in batch order
SweepPairs ==
    LET hs == Flatten(receiptBatches)
        items == Flatten(receiptResponses)
    IN [k \in 1..Len(items) |-> <<hs[k], items[k]>>]

CollectorInit ==
    /\ \E f \in 1..MaxHashes, bulk \in {0, BulkHashes} :
          /\ submittedHashes = [i \in 1..(f + bulk) |-> i]
          /\ receipts = [h \in 1..(f + bulk) |->
                IF h > f THEN [status |-> "0x1", blockNumber |-> 1]
                ELSE NoReceipt]
          /\ \E k \in 1..MaxBatches : receiptBatchSize = CeilDiv(f + bulk, k)
    /\ remainingTransactions = submittedHashes
    /\ succeededTransactions = <<>> /\ fetchErrors = <<>>
    /\ retryCounter = RetryBudget(Len(submittedHashes))
    /\ polled = 0
    /\ receiptBatches = <<>> /\ receiptPostState = <<>>
    /\ receiptResponses = <<>>
    /\ chainHeight = 1
    /\ collectorPc = "sweep"
    /\ collectorError = [kind |-> "none", txHash |-> 0]
    /\ RuntimeIdle /\ EngineIdle /\ DistIdle /\ RunIdle
    /\ BatcherIdle /\ TpsIdle /\ LaterIdle

\* fetchTransactionReceipts: generateBatches and batches.map(... axios(...))
PostReceiptBatches ==
    /\ collectorPc = "sweep"
    /\ receiptBatches' = generateBatches(remainingTransactions,
                                         receiptBatchSize)
    /\ receiptPostState' = [b \in 1..Len(receiptBatches') |-> "inflight"]
    /\ receiptResponses' = [b \in 1..Len(receiptBatches') |-> <<>>]
    /\ collectorPc' = "posted"
    /\ UNCHANGED <<submittedHashes, receipts, remainingTransactions,
                   succeededTransactions, fetchErrors, retryCounter, polled,
                   receiptBatchSize, chainHeight, collectorError,
                   outsideCollector>>

\* the node answers the POST of batch b from the receipts it has then
ReceiptPostResolves(b) ==
    /\ collectorPc = "posted"
    /\ receiptPostState[b] = "inflight"
    /\ receiptResponses' = [receiptResponses EXCEPT ![b] =
          [k \in 1..Len(receiptBatches[b]) |->
              ReceiptItem(receipts, receiptBatches[b][k],
                          ItemsBefore(receiptBatches, b) + k - 1)]]
    /\ receiptPostState' = [receiptPostState EXCEPT ![b] = "ok"]
    /\ UNCHANGED <<submittedHashes, receipts, remainingTransactions,
                   succeededTransactions, fetchErrors, retryCounter, polled,
                   receiptBatchSize, receiptBatches, chainHeight,
                   collectorPc, collectorError, outsideCollector>>

\* the POST of batch b fails at the network level
ReceiptPostRejects(b) ==
    /\ collectorPc = "posted"
    /\ receiptPostState[b] = "inflight"
    /\ receiptPostState' = [receiptPostState EXCEPT ![b] = "failed"]
    /\ UNCHANGED <<submittedHashes, receipts, remainingTransactions,
                   succeededTransactions, fetchErrors, retryCounter, polled,
                   receiptBatchSize, receiptBatches, receiptResponses,
                   chainHeight, collectorPc, collectorError,
                   outsideCollector>>

\* await Promise.all(...) rejects: neither fetchTransactionReceipts nor
\* gatherTransactionReceipts catches it
SweepRejected ==
    /\ collectorPc = "posted"
    /\ \E b \in DOMAIN receiptPostState : receiptPostState[b] = "failed"
    /\ collectorPc' = "failed"
    /\ collectorError' = [kind |-> "post", txHash |-> 0]
    /\ UNCHANGED <<submittedHashes, receipts, remainingTransactions,
                   succeededTransactions, fetchErrors, retryCounter, polled,
                   receiptBatchSize, receiptBatches, receiptPostState,
                   receiptResponses, chainHeight, outsideCollector>>

\* await Promise.all(...) resolves: the items are read, and the body of the
\* while loop of gatherTransactionReceipts runs to its break or to its wait
\* for the next block
SweepResolved ==
    /\ collectorPc = "posted"
    /\ \A b \in DOMAIN receiptPostState : receiptPostState[b] = "ok"
    /\ LET result == ReadReceipts(SweepPairs,
                        [succeeded |-> <<>>, remaining |-> <<>>, failed |-> 0])
       IN IF result.failed # 0
          THEN /\ collectorPc' = "failed"
               /\ collectorError' =
                     [kind |-> "reverted", txHash |-> result.failed]
               /\ UNCHANGED <<remainingTransactions, succeededTransactions,
                              retryCounter>>
          ELSE /\ remainingTransactions' = result.remaining
               /\ succeededTransactions' =
                     succeededTransactions \o result.succeeded
               /\ retryCounter' = retryCounter - 1
               /\ collectorPc' =
                     IF Len(result.remaining) = 0 \/ retryCounter' = 0
                     THEN "fallback" ELSE "waitBlock"
               /\ UNCHANGED collectorError
    /\ UNCHANGED <<submittedHashes, receipts, fetchErrors, polled,
                   receiptBatchSize, receiptBatches, receiptPostState,
                   receiptResponses, chainHeight, outsideCollector>>

\* the node mines a block holding some of the transactions that have no
\* receipt yet; provider.once('block') resolves a pending wait
MineBlock ==
    /\ collectorPc \notin {"idle", "done", "failed"}
    /\ chainHeight < MaxHeight \/ collectorPc = "waitBlock"
    /\ chainHeight' = chainHeight + 1
    /\ \E mined \in SUBSET {h \in DOMAIN receipts :
                               receipts[h].status = "none"} :
       \E reverted \in SUBSET mined :
          receipts' = [h \in DOMAIN receipts |->
              IF h \in mined
              THEN [status |-> IF h \in reverted THEN "0x0" ELSE "0x1",
                    blockNumber |-> chainHeight']
              ELSE receipts[h]]
    /\ collectorPc' = IF collectorPc = "waitBlock" THEN "sweep"
                      ELSE collectorPc
    /\ UNCHANGED <<submittedHashes, remainingTransactions,
                   succeededTransactions, fetchErrors, retryCounter, polled,
                   receiptBatchSize, receiptBatches, receiptPostState,
                   receiptResponses, collectorError, outsideCollector>>

\* one iteration of the fallback loop: waitForTransaction(txHash, 1, 30 s)
\* resolves with the receipt
WaitForTransaction ==
    /\ collectorPc = "fallback"
    /\ polled < Len(remainingTransactions)
    /\ LET txHash == remainingTransactions[polled + 1]
           txReceipt == receipts[txHash]
       IN /\ txReceipt.status # "none"
          /\ IF txReceipt.status = "0x0"
             THEN /\ collectorPc' = "failed"
                  /\ collectorError' =
                        [kind |-> "reverted", txHash |-> txHash]
                  /\ UNCHANGED <<succeededTransactions, polled>>
             ELSE /\ succeededTransactions' =
                        Append(succeededTransactions,
                               txStats(txHash,
                                       NumBlock(txReceipt.blockNumber)))
                  /\ polled' = polled + 1
                  /\ UNCHANGED <<collectorPc, collectorError>>
    /\ UNCHANGED <<submittedHashes, receipts, remainingTransactions,
                   fetchErrors, retryCounter, receiptBatchSize,
                   receiptBatches, receiptPostState, receiptResponses,
                   chainHeight, outsideCollector>>

\* waitForTransaction(txHash, 1, 30 s) rejects after its 30 seconds: the
\* loop has no try/catch, the error leaves gatherTransactionReceipts
WaitForTransactionTimeout ==
    /\ collectorPc = "fallback"
    /\ polled < Len(remainingTransactions)
    /\ receipts[remainingTransactions[polled + 1]].status = "none"
    /\ collectorPc' = "failed"
    /\ collectorError' = [kind |-> "timeout",
                          txHash |-> remainingTransactions[polled + 1]]
    /\ UNCHANGED <<submittedHashes, receipts, remainingTransactions,
                   succeededTransactions, fetchErrors, retryCounter, polled,
                   receiptBatchSize, receiptBatches, receiptPostState,
                   receiptResponses, chainHeight, outsideCollector>>

\* the fallback loop is over: fetchErrors is logged, succeededTransactions
\* is returned
GatherReturn ==
    /\ collectorPc = "fallback"
    /\ polled = Len(remainingTransactions)
    /\ collectorPc' = "done"
    /\ UNCHANGED <<submittedHashes, receipts, remainingTransactions,
                   succeededTransactions, fetchErrors, retryCounter, polled,
                   receiptBatchSize, receiptBatches, receiptPostState,
                   receiptResponses, chainHeight, collectorError,
                   outsideCollector>>

CollectorNext ==
    \/ PostReceiptBatches
    \/ \E b \in DOMAIN receiptPostState : ReceiptPostResolves(b)
    \/ \E b \in DOMAIN receiptPostState : ReceiptPostRejects(b)
    \/ SweepRejected \/ SweepResolved \/ MineBlock
    \/ WaitForTransaction \/ WaitForTransactionTimeout \/ GatherReturn

SpecCollector == CollectorInit /\ [][CollectorNext]_vars

\* the continuations of the collector run when they can, every POST is
\* answered or fails, and a block event awaited by provider.once('block')
\* arrives
CollectorFairness ==
    /\ WF_vars(PostReceiptBatches \/ SweepResolved \/ SweepRejected)
    /\ WF_vars(\E b \in DOMAIN receiptPostState :
                  ReceiptPostResolves(b) \/ ReceiptPostRejects(b))
    /\ WF_vars(MineBlock /\ collectorPc = "waitBlock")

SpecCollectorFair == SpecCollector /\ CollectorFairness

----------------------------------------------------------------------------
(* fetchTransactionReceipts against a node that answers a batch with its   *)
(* response objects in another order than the requests: JSON-RPC 2.0 lets  *)
(* a server return the responses of a batch in any order, to be matched by *)
(* their id                                                                *)

\* the node answers the POST of batch b, last request first
ReceiptPostResolvesReordered(b) ==
    /\ collectorPc = "posted"
    /\ receiptPostState[b] = "inflight"
    /\ Len(receiptBatches[b]) >= 2
    /\ receiptResponses' = [receiptResponses EXCEPT ![b] =
          [k \in 1..Len(receiptBatches[b]) |->
              LET r == Len(receiptBatches[b]) + 1 - k
              IN ReceiptItem(receipts, receiptBatches[b][r],
                             ItemsBefore(receiptBatches, b) + r - 1)]]
    /\ receiptPostState' = [receiptPostState EXCEPT ![b] = "ok"]
    /\ UNCHANGED <<submittedHashes, receipts, remainingTransactions,
                   succeededTransactions, fetchErrors, retryCounter, polled,
                   receiptBatchSize, receiptBatches, chainHeight,
                   collectorPc, collectorError, outsideCollector>>

ReorderNext ==
    \/ CollectorNext
    \/ \E b \in DOMAIN receiptPostState : ReceiptPostResolvesReordered(b)

SpecReorder == CollectorInit /\ [][ReorderNext]_vars

----------------------------------------------------------------------------
(* StatCollector of src/stats/collector.ts: waitForTxPoolToEmpty, and
   gatherTransactionReceipts with one waitForTransaction per hash *)

\* the unit of clock, in milliseconds
TickMs == 500

\* const timeout = numOfTxs * 500
PoolTimeout(numOfTxs) == (numOfTxs * 500) \div TickMs

\* setTimeout(resolve, 2 * 1000)
PollPause == (2 * 1000) \div TickMs

\* a count in a txpool_status answer: a number, or a hex string
Quantity(n, hex) == [num |-> n, hex |-> hex]

\* v === 0
StrictlyZero(v) == ~v.hex /\ v.num = 0

\* the chains the node may hold when the receipts are asked for: every hash
\* beyond the first f is in block 1, each of the first f is in a block with
\* either status, or in none
ChainsOf(n, f) ==
    LET mined == [status : {"0x1", "0x0"}, blockNumber : 1..MaxBlock]
    IN {[h \in 1..n |-> IF h <= f THEN g[h]
                        ELSE [status |-> "0x1", blockNumber |-> 1]] :
           g \in [1..f -> mined \cup {NoReceipt}]}

PoolInit ==
    /\ \E f \in 1..MaxHashes, bulk \in {0, PoolBulkHashes} :
          /\ submittedHashes = [i \in 1..(f + bulk) |-> i]
          /\ remainingTransactions = [i \in 1..f |-> i]
    /\ receipts = <<>>
    /\ succeededTransactions = <<>> /\ fetchErrors = <<>>
    /\ retryCounter = 0 /\ polled = 0
    /\ receiptBatchSize = 1 /\ receiptBatches = <<>>
    /\ receiptPostState = <<>> /\ receiptResponses = <<>>
    /\ chainHeight = 0
    /\ collectorPc = "pool"
    /\ collectorError = [kind |-> "none", txHash |-> 0]
    /\ \E p, q \in 0..1, hp, hq \in BOOLEAN :
          txpoolStatus = [pending |-> Quantity(p, hp),
                          queued |-> Quantity(q, hq)]
    /\ pending = Quantity(1, FALSE) /\ queued = Quantity(1, FALSE)
    /\ stopFlag = FALSE /\ clock = 0 /\ wakeAt = 0
    /\ pollPc = "polling" /\ isOk = "racing"
    /\ blocksMap = {} /\ txToBlockMap = {}
    /\ RuntimeIdle /\ EngineIdle /\ DistIdle /\ RunIdle
    /\ BatcherIdle /\ TpsIdle /\ TokenIdle /\ RerunIdle /\ NodeIdle

\* the transactions leave the pool of the node
DrainPool ==
    /\ isOk = "racing"
    /\ \E p \in 0..txpoolStatus.pending.num, q \in 0..txpoolStatus.queued.num :
          /\ p + q < txpoolStatus.pending.num + txpoolStatus.queued.num
          /\ txpoolStatus' = [txpoolStatus EXCEPT !.pending.num = p,
                                                  !.queued.num = q]
    /\ UNCHANGED <<pending, queued, stopFlag, clock, wakeAt, pollPc, isOk,
                   blocksMap, txToBlockMap, collectorVars, outsidePool>>

\* time passes, unless a timer is due
Tick ==
    /\ isOk = "racing" \/ pollPc = "sleeping"
    /\ ~(isOk = "racing" /\ clock = PoolTimeout(Len(submittedHashes)))
    /\ ~(pollPc = "sleeping" /\ clock = wakeAt)
    /\ clock' = clock + 1
    /\ UNCHANGED <<txpoolStatus, pending, queued, stopFlag, wakeAt, pollPc,
                   isOk, blocksMap, txToBlockMap, collectorVars, outsidePool>>

\* the body of the loop of txpoolStatusPromise once axios.post has
\* answered: the answer is stored, the poller returns true on
\* pending === 0 && queued === 0, and pauses otherwise
PollAnswer ==
    /\ pollPc = "polling"
    /\ pending' = txpoolStatus.pending
    /\ queued' = txpoolStatus.queued
    /\ IF StrictlyZero(pending') /\ StrictlyZero(queued')
       THEN /\ pollPc' = "returned"
            /\ isOk' = IF isOk = "racing" THEN "true" ELSE isOk
            /\ UNCHANGED wakeAt
       ELSE /\ pollPc' = "sleeping"
            /\ wakeAt' = clock + PollPause
            /\ UNCHANGED isOk
    /\ UNCHANGED <<txpoolStatus, stopFlag, clock, blocksMap, txToBlockMap,
                   collectorVars, outsidePool>>

\* axios.post rejects, or the answer has no result: the catch block logs
\* the error, the poller pauses
PollError ==
    /\ pollPc = "polling"
    /\ pollPc' = "sleeping"
    /\ wakeAt' = clock + PollPause
    /\ UNCHANGED <<txpoolStatus, pending, queued, stopFlag, clock, isOk,
                   blocksMap, txToBlockMap, collectorVars, outsidePool>>

\* a poller that goes round whatever stopFlag is
PollWakeIgnoringFlag ==
    /\ pollPc = "sleeping"
    /\ clock = wakeAt
    /\ pollPc' = "polling"
    /\ wakeAt' = 0
    /\ UNCHANGED <<txpoolStatus, pending, queued, stopFlag, clock, isOk,
                   blocksMap, txToBlockMap, collectorVars, outsidePool>>

\* the pause is over: while (!stopFlag) goes round, or the poller ends
PollWake ==
    /\ pollPc = "sleeping"
    /\ clock = wakeAt
    /\ pollPc' = IF stopFlag THEN "returned" ELSE "polling"
    /\ wakeAt' = 0
    /\ UNCHANGED <<txpoolStatus, pending, queued, stopFlag, clock, isOk,
                   blocksMap, txToBlockMap, collectorVars, outsidePool>>

\* the timer of timeoutPromise: stopFlag = true and reject; Promise.race
\* rejects, the catch block logs the message and returns false
TimeoutFires ==
    /\ isOk = "racing"
    /\ clock = PoolTimeout(Len(submittedHashes))
    /\ stopFlag' = TRUE
    /\ isOk' = "false"
    /\ UNCHANGED <<txpoolStatus, pending, queued, clock, wakeAt, pollPc,
                   blocksMap, txToBlockMap, collectorVars, outsidePool>>

\* gatherTransactionReceipts after await waitForTxPoolToEmpty:
\* if (!isOk) return new Map(); otherwise the loop over txHashes begins
AfterPoolWait ==
    /\ collectorPc = "pool"
    /\ isOk \in {"true", "false"}
    /\ IF isOk = "false"
       THEN collectorPc' = "done" /\ receipts' = receipts
       ELSE /\ collectorPc' = "loop"
            /\ receipts' \in ChainsOf(Len(submittedHashes),
                                      Len(remainingTransactions))
    /\ UNCHANGED <<submittedHashes, remainingTransactions,
                   succeededTransactions, fetchErrors, retryCounter, polled,
                   receiptBatchSize, receiptBatches, receiptPostState,
                   receiptResponses, chainHeight, collectorError,
                   poolVars, outsidePool>>

FetchError(txHash, kind) == [txHash |-> txHash, kind |-> kind]

\* one iteration of for (const txHash of txHashes), with its try and catch
ReceiptLoopStep ==
    /\ collectorPc = "loop"
    /\ polled < Len(submittedHashes)
    /\ LET txHash == submittedHashes[polled + 1]
           txReceipt == receipts[txHash]
           known == {e \in txToBlockMap : e[1] = txHash}
       IN IF known # {}
          THEN /\ succeededTransactions' =
                     Append(succeededTransactions,
                            txStats(txHash,
                                    NumBlock((CHOOSE e \in known : TRUE)[2])))
               /\ UNCHANGED <<fetchErrors, blocksMap, txToBlockMap>>
          ELSE IF txReceipt.status = "none"
          THEN /\ fetchErrors' =
                     Append(fetchErrors, FetchError(txHash, "timeout"))
               /\ UNCHANGED <<succeededTransactions, blocksMap, txToBlockMap>>
          ELSE IF txReceipt.status = "0x0"
          THEN /\ fetchErrors' =
                     Append(fetchErrors, FetchError(txHash, "reverted"))
               /\ UNCHANGED <<succeededTransactions, blocksMap, txToBlockMap>>
          ELSE /\ succeededTransactions' =
                     Append(succeededTransactions,
                            txStats(txHash, NumBlock(txReceipt.blockNumber)))
               /\ \/ /\ blocksMap' = blocksMap \cup {txReceipt.blockNumber}
                     /\ txToBlockMap' = txToBlockMap \cup
                           {<<h, txReceipt.blockNumber>> :
                               h \in {x \in DOMAIN receipts :
                                         receipts[x].blockNumber =
                                            txReceipt.blockNumber}}
                     /\ UNCHANGED fetchErrors
                  \/ /\ fetchErrors' =
                           Append(fetchErrors, FetchError(txHash, "getBlock"))
                     /\ UNCHANGED <<blocksMap, txToBlockMap>>
    /\ polled' = polled + 1
    /\ UNCHANGED <<submittedHashes, receipts, remainingTransactions,
                   retryCounter, receiptBatchSize, receiptBatches,
                   receiptPostState, receiptResponses, chainHeight,
                   collectorPc, collectorError,
                   txpoolStatus, pending, queued, stopFlag, clock, wakeAt,
                   pollPc, isOk, outsidePool>>

\* the loop is over: fetchErrors is logged, blocksMap is returned
ReturnBlocksMap ==
    /\ collectorPc = "loop"
    /\ polled = Len(submittedHashes)
    /\ collectorPc' = "done"
    /\ UNCHANGED <<submittedHashes, receipts, remainingTransactions,
                   succeededTransactions, fetchErrors, retryCounter, polled,
                   receiptBatchSize, receiptBatches, receiptPostState,
                   receiptResponses, chainHeight, collectorError,
                   poolVars, outsidePool>>

PoolNext ==
    \/ DrainPool \/ Tick \/ PollAnswer \/ PollError \/ PollWake
    \/ TimeoutFires \/ AfterPoolWait \/ ReceiptLoopStep \/ ReturnBlocksMap

SpecPool == PoolInit /\ [][PoolNext]_vars

\* time passes and the timers of setTimeout fire when they are due; nothing
\* is asked of the node, whose answers to the polls may fail or stay away
PoolFairness ==
    WF_vars(Tick) /\ WF_vars(TimeoutFires) /\ WF_vars(PollWake)

SpecPoolFair == SpecPool /\ PoolFairness

----------------------------------------------------------------------------
(* StatCollector.calcTPS *)

Abs(x) == IF x < 0 THEN 0 - x ELSE x

\* the first loop: totalTxs counts the stats with a block other than 0,
\* uniqueBlocks is a Set keyed by the block value as stored, so that the
\* hex string and the number of one block are two members
RECURSIVE CountIncluded(_)
CountIncluded(sts) ==
    IF sts = <<>> THEN 0
    ELSE (IF Head(sts).block.num = 0 THEN 0 ELSE 1) + CountIncluded(Tail(sts))

RECURSIVE UniqueBlocks(_, _)
UniqueBlocks(sts, seen) ==
    IF sts = <<>> THEN seen
    ELSE IF Head(sts).block.num = 0 \/ Head(sts).block \in Range(seen)
         THEN UniqueBlocks(Tail(sts), seen)
         ELSE UniqueBlocks(Tail(sts), Append(seen, Head(sts).block))

\* the second loop: a block whose getBlock, or whose parent's, throws adds
\* nothing
RECURSIVE TotalTime(_, _, _)
TotalTime(blocks, ts, failed) ==
    IF blocks = <<>> THEN 0
    ELSE LET currentBlockNum == Head(blocks).num
             parentBlockNum == currentBlockNum - 1
         IN (IF parentBlockNum \in failed \/ currentBlockNum \in failed
             THEN 0
             ELSE Abs(ts[currentBlockNum] - ts[parentBlockNum]))
            + TotalTime(Tail(blocks), ts, failed)

\* Math.ceil(a / b) on JavaScript numbers, for integers a >= 0 and b >= 0
CeilOfQuotient(a, b) ==
    IF b = 0
    THEN IF a = 0 THEN [kind |-> "NaN", value |-> 0]
         ELSE [kind |-> "Infinity", value |-> 0]
    ELSE [kind |-> "finite", value |-> CeilDiv(a, b)]

calcTPS(sts, ts, failed) ==
    CeilOfQuotient(CountIncluded(sts),
                   TotalTime(UniqueBlocks(sts, <<>>), ts, failed))

\* the txStats lists gatherTransactionReceipts returns: one per hash, each
\* naming a mined block, as a hex string (found in a sweep) or as a number
\* (found by the fallback loop, which runs after the sweeps)
StatsOfLength(n) ==
    [1..n -> {txStats(0, HexBlock(b)) : b \in 1..MaxBlock}
             \cup {txStats(0, NumBlock(b)) : b \in 1..MaxBlock}]

TpsInit ==
    /\ \E n \in 1..MaxStats :
          \E f \in StatsOfLength(n) :
             stats = [i \in 1..n |-> [f[i] EXCEPT !.txHash = i]]
    /\ \A i, j \in DOMAIN stats :
          (i < j /\ ~stats[i].block.hex) => ~stats[j].block.hex
    /\ blockTimestamp \in [0..MaxBlock -> 0..MaxTime]
    /\ \A b \in 1..MaxBlock : blockTimestamp[b - 1] <= blockTimestamp[b]
    /\ failedBlocks \in {{}} \cup {{b} : b \in 0..MaxBlock}
    /\ avgTPS = [kind |-> "none", value |-> 0]
    /\ tpsPc = "start"
    /\ RuntimeIdle /\ EngineIdle /\ DistIdle /\ RunIdle
    /\ BatcherIdle /\ CollectorIdle /\ LaterIdle

CalcTPS ==
    /\ tpsPc = "start"
    /\ avgTPS' = calcTPS(stats, blockTimestamp, failedBlocks)
    /\ tpsPc' = "done"
    /\ UNCHANGED <<stats, blockTimestamp, failedBlocks, outsideTps>>

TpsNext == CalcTPS

SpecTps == TpsInit /\ [][TpsNext]_vars

----------------------------------------------------------------------------
(* The command-line entry point: run() of src/index.ts *)

\* a --mode value that names no runtime: the distributor is never built
UnknownModeInit ==
    /\ mode = "GREETER"
    /\ gasPrice = 1 /\ gasEstimation = 1
    /\ requestedSubAccounts = 1 /\ totalTx = 1
    /\ balance = [i \in 0..MaxAccounts |-> 0]
    /\ pendingTransfers = <<>>
    /\ baseCosts = [accDistributionCost |-> 0, subAccount |-> 0]
    /\ shortAddresses = <<>> /\ readyMnemonicIndexes = <<>>
    /\ accountsToFund = <<>> /\ distributorBalance = 0
    /\ lastPopped = <<>> /\ distPc = "start" /\ distError = "none"
    /\ EngineIdle /\ BatcherIdle /\ CollectorIdle /\ TpsIdle /\ LaterIdle

RunInit ==
    /\ DistInit \/ UnknownModeInit
    /\ runPc = "start" /\ runError = "none" /\ exitStatus = 0
    /\ submittedTxs = 0 /\ tokenPc = "idle" /\ outputWritten = FALSE
    /\ collectedBlocks = 0

\* the switch on options.mode; Initialize() deploys the contract of the
\* ERC20 and ERC721 runtimes and may throw
SelectRuntime ==
    /\ runPc = "start"
    /\ IF mode \notin Modes
       THEN runPc' = "rejected" /\ runError' = "errUnknownRuntime"
       ELSE IF mode = "EOA"
       THEN runPc' = "distribute" /\ runError' = runError
       ELSE \E deployed \in BOOLEAN :
               IF deployed
               THEN runPc' = "distribute" /\ runError' = runError
               ELSE runPc' = "rejected" /\ runError' = "Initialize"
    /\ UNCHANGED <<exitStatus, submittedTxs, tokenPc, outputWritten,
                   collectedBlocks,
                   runtimeVars, distVars, outsideDist>>

\* await distributor.distribute() resolved
DistributeResolved ==
    /\ runPc = "distribute"
    /\ distPc = "done"
    /\ runPc' = IF mode = "ERC20" THEN "distributeTokens" ELSE "engine"
    /\ UNCHANGED <<runError, exitStatus, submittedTxs, tokenPc, outputWritten,
                   collectedBlocks,
                   runtimeVars, distVars, outsideDist>>

\* a rejection of distribute() that is swallowed instead of leaving run()
DistributeRejectedIgnored ==
    /\ runPc = "distribute"
    /\ distPc = "failed"
    /\ runPc' = IF mode = "ERC20" THEN "distributeTokens" ELSE "engine"
    /\ UNCHANGED <<runError, exitStatus, submittedTxs, tokenPc, outputWritten,
                   collectedBlocks,
                   runtimeVars, distVars, outsideDist>>

\* await distributor.distribute() rejected: run() rejects with its error
DistributeRejected ==
    /\ runPc = "distribute"
    /\ distPc = "failed"
    /\ runPc' = "rejected"
    /\ runError' = distError
    /\ UNCHANGED <<exitStatus, submittedTxs, tokenPc, outputWritten,
                   collectedBlocks,
                   runtimeVars, distVars, outsideDist>>

\* if (mode === RuntimeType.ERC20) await tokenDistributor.distributeTokens()
DistributeTokens ==
    /\ runPc = "distributeTokens"
    /\ \E funded \in BOOLEAN :
          IF funded
          THEN tokenPc' = "done" /\ runPc' = "engine" /\ runError' = runError
          ELSE /\ tokenPc' = "failed" /\ runPc' = "rejected"
               /\ runError' = "distributeTokens"
    /\ UNCHANGED <<exitStatus, submittedTxs, outputWritten, collectedBlocks,
                   runtimeVars, distVars, outsideDist>>

\* await Engine.Run(runtime, ctx): it posts the transactions it could sign,
\* or throws before posting any (a failed call of the node while the
\* accounts are loaded or the transactions are built)
EngineRun ==
    /\ runPc = "engine"
    /\ \/ \E n \in 0..totalTx :
             /\ submittedTxs' = n
             /\ runPc' = "collect" /\ runError' = runError
       \/ /\ runPc' = "rejected" /\ runError' = "Engine.Run"
          /\ UNCHANGED submittedTxs
    /\ UNCHANGED <<exitStatus, tokenPc, outputWritten, collectedBlocks,
                   runtimeVars, distVars, outsideDist>>

\* await generateStats(txHashes, ...): for no hashes it returns at once
\* CollectorData(0, new Map()); otherwise it throws, or returns the blocks
\* fetchBlockInfo could fetch
GenerateStats ==
    /\ runPc = "collect"
    /\ \E hashes \in 0..submittedTxs :
          IF hashes = 0
          THEN /\ runPc' = "output" /\ runError' = runError
               /\ collectedBlocks' = 0
          ELSE \/ /\ runPc' = "rejected" /\ runError' = "generateStats"
                  /\ UNCHANGED collectedBlocks
               \/ \E blocks \in 0..hashes :
                     /\ runPc' = "output" /\ runError' = runError
                     /\ collectedBlocks' = blocks
    /\ UNCHANGED <<exitStatus, submittedTxs, tokenPc, outputWritten,
                   runtimeVars, distVars, outsideDist>>

\* if (output) Outputter.outputData(collectorData, output); run() resolves
OutputData ==
    /\ runPc = "output"
    /\ \E output \in BOOLEAN : outputWritten' = output
    /\ runPc' = "resolved"
    /\ UNCHANGED <<runError, exitStatus, submittedTxs, tokenPc, collectedBlocks,
                   runtimeVars, distVars, outsideDist>>

\* run().then().catch((err) => { Logger.error(err); }): the rejection is
\* logged and the process ends like after a resolved run
Exit ==
    /\ runPc \in {"resolved", "rejected"}
    /\ runPc' = "exited"
    /\ exitStatus' = 0
    /\ UNCHANGED <<runError, submittedTxs, tokenPc, outputWritten,
                   collectedBlocks,
                   runtimeVars, distVars, outsideDist>>

RunNext ==
    \/ SelectRuntime
    \/ runPc = "distribute" /\ CalculateRuntimeCosts
    \/ runPc = "distribute" /\ FindAccounts
    \/ runPc = "distribute" /\ PopFundable
    \/ runPc = "distribute" /\ EndFundable
    \/ runPc = "distribute" /\ FundAccount
    \/ runPc = "distribute" /\ DistributeReturn
    \/ MineTransfer
    \/ DistributeResolved \/ DistributeRejected \/ DistributeTokens
    \/ EngineRun \/ GenerateStats \/ OutputData \/ Exit

SpecRun == RunInit /\ [][RunNext]_vars

----------------------------------------------------------------------------
(* Claims about construction, signing and request order *)

\* the nonces of the transactions of txs sent from addr, in list order
NoncesOf(txs, addr) ==
    LET mine == SelectSeq(txs, LAMBDA t : t.from = addr)
    IN [p \in 1..Len(mine) |-> mine[p].nonce]

\* C1: once ConstructTransactions has returned, the nonces of the
\* transactions built for each sender account are n0, n0 + 1, n0 + 2, ...
\* in construction order, n0 being the transaction count getSenderAccounts
\* fetched for that account.
C1_NoncesConsecutive ==
    enginePc \in {"constructed", "signed", "sent"} =>
        \A k \in 1..Len(accounts) :
            LET ns == NoncesOf(rawTransactions, accounts[k].address)
                n0 == chainNonce[accounts[k].mnemonicIndex]
            IN \A p \in 1..Len(ns) : ns[p] = n0 + p - 1

C1_Witness ==
    /\ enginePc = "constructed"
    /\ mode = "ERC20"
    /\ Len(accounts) >= 2
    /\ \E k \in 1..Len(accounts) :
          /\ chainNonce[accounts[k].mnemonicIndex] >= 1
          /\ Len(NoncesOf(rawTransactions, accounts[k].address)) >= 2

\* C5: in the eth_sendRawTransaction requests taken by batch index and then
\* by position in the batch, the transactions of one account appear in
\* strictly increasing nonce order, whatever signings failed.
C5_SubmissionNonceOrder ==
    enginePc = "sent" =>
        LET sent == Flatten(requests)
        IN \A p, q \in 1..Len(sent) :
              (p < q /\ sent[p].params.from = sent[q].params.from)
                  => sent[p].params.nonce < sent[q].params.nonce

C5_Witness ==
    /\ enginePc = "sent"
    /\ signErrors > 0
    /\ Len(requests) >= 2
    /\ \E p \in 1..Len(requests[1]), q \in 1..Len(requests[2]) :
          requests[1][p].params.from = requests[2][q].params.from

\* the batches as they were posted: the params of the requests, by batch
PostedItems ==
    [b \in 1..Len(requests) |->
        [i \in 1..Len(requests[b]) |-> requests[b][i].params]]

\* C15: generateBatches splits the n signed transactions with batch size B
\* so that the batches concatenated in order are the input; for n >= 1 there
\* are ceil(n / B) batches, all but the last of exactly B items and the last
\* of 1..B items, hence one batch when B >= n and n batches when B = 1.
C15_BatchesPartitionInput ==
    enginePc = "sent" =>
        LET n == Len(signedTransactions)
            bs == PostedItems
        IN /\ Flatten(bs) = signedTransactions
           /\ n >= 1 =>
                 /\ Len(bs) = CeilDiv(n, batchSize)
                 /\ \A b \in 1..(Len(bs) - 1) : Len(bs[b]) = batchSize
                 /\ Len(bs[Len(bs)]) \in 1..batchSize
                 /\ batchSize >= n => Len(bs) = 1
                 /\ batchSize = 1 => Len(bs) = n

C15_Witness ==
    /\ enginePc = "sent"
    /\ batchSize = 2
    /\ Len(signedTransactions) = 3
    /\ Len(requests) = 2
    /\ Len(requests[2]) = 1

\* C16: getSenderAccounts returns min(|accountIndexes|, numTxs) accounts,
\* the i-th being the i-th index of the ready list; with more ready indexes
\* than transactions exactly the first numTxs are initialized.
C16_FirstIndexesInitialized ==
    enginePc # "start" =>
        /\ Len(accounts) = Min(Len(accountIndexes), numTxs)
        /\ \A i \in 1..Len(accounts) :
              accounts[i].mnemonicIndex = accountIndexes[i]
        /\ Len(accountIndexes) > numTxs =>
              [i \in 1..Len(accounts) |-> accounts[i].mnemonicIndex]
                  = SubSeq(accountIndexes, 1, numTxs)

C16_Witness ==
    /\ enginePc = "accounts"
    /\ Len(accountIndexes) = 3
    /\ numTxs = 2
    /\ Len(accounts) = 2
    /\ accountIndexes[3] \notin {accounts[i].mnemonicIndex : i \in 1..2}

----------------------------------------------------------------------------
(* Claims about the native distributor *)

\* C2: whenever distribute() has returned normally, every index of the
\* returned ready list has an on-chain native balance of at least
\* R = N * (P * G + V).
C2_FundingSufficiency ==
    distPc = "done" =>
        \A i \in Range(readyMnemonicIndexes) :
            balance[i] >= baseCosts.subAccount

\* C3: at every pop of getFundableAccounts the popped entry's missingFunds
\* is at most that of every entry still in the heap.
C3_PopIsMinimum ==
    lastPopped # <<>> =>
        \A e \in Range(shortAddresses) :
            lastPopped[1].missingFunds <= e.missingFunds

\* C13: distribute() fails with errNotEnoughFunds exactly when the heap of
\* short accounts is not empty and the root balance does not exceed the
\* distribution cost before the first pop; no funding transfer has then been
\* sent, and none is sent afterwards.
C13_NotEnoughFundsExactly ==
    [][/\ (distPc = "fundable" /\ distPc' # "fundable")
          => (distError' = "errNotEnoughFunds"
                <=> /\ shortAddresses # <<>>
                    /\ lastPopped = <<>>
                    /\ balance[0] <= baseCosts.accDistributionCost)
       /\ (distError' = "errNotEnoughFunds" /\ distError # "errNotEnoughFunds")
          => distPc = "fundable"
       /\ distError' = "errNotEnoughFunds"
          => /\ pendingTransfers' = <<>>
             /\ balance' = balance
             /\ accountsToFund' = <<>>]_vars

C13_Witness ==
    /\ distPc = "failed"
    /\ distError = "errNotEnoughFunds"
    /\ shortAddresses # <<>>
    /\ balance[0] > 0
    /\ balance[0] <= baseCosts.accDistributionCost

\* C14: while getFundableAccounts selects accounts and while fundAccounts
\* sends their transfers, the running root balance is never negative, and
\* distribute() does not fail in a funding transfer.
C14_SelectionWithinRootBalance ==
    /\ distPc \in {"fundable", "funding", "done"} => distributorBalance >= 0
    /\ distError # "sendTransaction"

\* what a second distribute() does when it needs no funding: no transfer is
\* sent, the balances stay the carried-over ones, the fully-funded branch
\* is taken and the ready indexes are those of the first run
RerunNeedsNoFunding ==
    /\ pendingTransfers = <<>>
    /\ balance = carriedBalance
    /\ distPc \in {"start", "costs", "done"}
    /\ distPc = "done" => Range(readyMnemonicIndexes) = Range(firstReady)

\* C18 (as stated): a second distribute() on the balances left by a first
\* successful distribute() sends no funding transfer, takes the
\* fully-funded branch and returns the same set of ready indexes.
C18_RerunSendsNothing == distRun = 2 => RerunNeedsNoFunding

\* C18 (amended): the same, when the first distribute() returned all K
\* indexes, i.e. left no sub-account short.
C18_RerunAfterFullFunding ==
    (distRun = 2 /\ Len(firstReady) = requestedSubAccounts)
        => RerunNeedsNoFunding

C18_Witness ==
    /\ distRun = 2
    /\ distPc = "done"
    /\ Len(firstReady) = requestedSubAccounts
    /\ firstReady # readyMnemonicIndexes
    /\ carriedBalance[0] > 0

----------------------------------------------------------------------------
(* Claims about run() *)

RunPastDistribution == {"engine", "collect", "output", "resolved"}

\* C6: if distribute() or distributeTokens() fails, no workload transaction
\* is ever submitted: Engine.Run is reached, and transactions are posted,
\* only after distribute() returned normally and, in ERC20 mode,
\* distributeTokens() did too.
C6_NoWorkloadAfterFailedDistribution ==
    /\ (distPc = "failed" \/ tokenPc = "failed") =>
          submittedTxs = 0 /\ runPc \notin RunPastDistribution
    /\ (submittedTxs > 0 \/ runPc \in RunPastDistribution) =>
          distPc = "done" /\ (mode = "ERC20" => tokenPc = "done")

\* run() has ended after distribute() threw errNotEnoughFunds
C6_Witness ==
    /\ runPc = "exited"
    /\ distPc = "failed" /\ runError = "errNotEnoughFunds"
    /\ submittedTxs = 0

\* C7: a fatal error ends the process with a nonzero exit status, and the
\* exit status is 0 only when the pipeline completed.
C7_ExitStatusReflectsFailure ==
    runPc = "exited" => (exitStatus = 0 <=> runError = "none")

----------------------------------------------------------------------------
(* Claims about the batcher *)

\* the hashes the node answered in the response of batch b
ResultsOf(b) == Range(CollectResults(responses[b]))

\* C8: when the POST of one batch fails at the network level while other
\* batches have succeeded, batchTransactions still returns the hashes of
\* the batches that succeeded.
C8_PartialOutputOnBatchFailure ==
    [][(batcherPc = "posted" /\ batcherPc' = "returned") =>
          \A b \in DOMAIN postState :
              postState[b] = "ok" => ResultsOf(b) \subseteq Range(txHashes')]_vars

----------------------------------------------------------------------------
(* Claims about the collector *)

InTxStats(h) ==
    \E i \in DOMAIN succeededTransactions :
        succeededTransactions[i].txHash = h

\* the errors the collector logs, and the error it ends with
InErrorLog(h) == h \in Range(fetchErrors) \/ collectorError.txHash = h

\* C4: once the collector is through with the hash list, by returning or
\* by a receipt not obtained within its 30 seconds, every hash is in
\* exactly one of the txStats list and the error log.
C4_ReceiptCompleteness ==
    (collectorPc = "done" \/
     (collectorPc = "failed" /\ collectorError.kind = "timeout")) =>
        \A h \in Range(submittedHashes) : InTxStats(h) # InErrorLog(h)

----------------------------------------------------------------------------
(* Claims about calcTPS *)

\* the receipts with a block number other than 0
TotalIncludedTx ==
    Cardinality({i \in DOMAIN stats : stats[i].block.num # 0})

\* the blocks the receipts name, each once, that the node could deliver
ReferencedBlocks ==
    {b \in {stats[i].block.num : i \in DOMAIN stats} \ {0} :
        b \notin failedBlocks /\ (b - 1) \notin failedBlocks}

RECURSIVE SumBlockTime(_)
SumBlockTime(bs) ==
    IF bs = {} THEN 0
    ELSE LET b == CHOOSE x \in bs : TRUE
         IN Abs(blockTimestamp[b] - blockTimestamp[b - 1])
            + SumBlockTime(bs \ {b})

TotalBlockTime == SumBlockTime(ReferencedBlocks)

\* C9: calcTPS returns ceil(totalIncludedTx / totalBlockTime), the total
\* block time being the sum of |timestamp(b) - timestamp(b-1)| over the
\* blocks the receipts name, each block counted once.
C9_TpsFormula ==
    (tpsPc = "done" /\ TotalBlockTime > 0) =>
        avgTPS = [kind |-> "finite",
                  value |-> CeilDiv(TotalIncludedTx, TotalBlockTime)]

\* C10: the avgTPS calcTPS reports is a finite integer >= 0, and it is 0
\* when the total block time is 0.
C10_TpsFiniteAndZero ==
    tpsPc = "done" =>
        /\ avgTPS.kind = "finite"
        /\ avgTPS.value >= 0
        /\ TotalBlockTime = 0 => avgTPS.value = 0

\* C19: the result file is written only if the collector observed at least
\* one block: Outputter.outputData is not invoked on an empty block map.
C19_OutputOnlyWithBlocks ==
    outputWritten => collectedBlocks > 0

----------------------------------------------------------------------------
(* Claims about the collector of src/stats/collector.ts *)

\* the collector has obtained a receipt of h with status 0x0
ObtainedReverted(h) ==
    \/ collectorError = [kind |-> "reverted", txHash |-> h]
    \/ \E i \in DOMAIN fetchErrors :
          fetchErrors[i] = FetchError(h, "reverted")

\* C11: if a receipt the collector obtains has status 0x0, the collector
\* ends with an error instead of returning, and that transaction is not
\* recorded as succeeded.
C11_RevertedReceiptIsFatal ==
    \A h \in Range(submittedHashes) :
        ObtainedReverted(h) => collectorPc # "done" /\ ~InTxStats(h)

\* C12: when the mempool-drain wait has timed out on a pool that still
\* holds pending or queued transactions, the collector still goes through
\* the receipt loop: it returns only after it has asked for a receipt of
\* every submitted hash.
C12_PoolTimeoutNotFatal ==
    (/\ isOk = "false"
     /\ txpoolStatus.pending.num > 0 \/ txpoolStatus.queued.num > 0
     /\ collectorPc = "done") =>
        polled = Len(submittedHashes)

\* C20: the poll takes the pool as drained when the answer reports pending
\* and queued both zero, as the number 0 or as the hex string "0x0".
C20_DrainedInEitherForm ==
    (pollPc \notin {"idle", "polling"}
        /\ pending.num = 0 /\ queued.num = 0) => pollPc = "returned"

----------------------------------------------------------------------------
(* Claims about the token distributor *)

\* the indexes getSenderAccounts initializes from the list the engine got
EngineSenders ==
    SubSeq(engineIndexes, 1, Min(Len(engineIndexes), tokenTotalTx))

\* C17: in ERC-20 mode, when construction starts every account the engine
\* uses as a sender holds at least ceil(N / |ready|) tokens, and is one of
\* the indexes the token distributor returned.
C17_EngineSendersHoldTokens ==
    tokenDistPc = "engine" =>
        \A k \in 1..Len(EngineSenders) :
            /\ tokenBalance[EngineSenders[k]]
                  >= CeilDiv(tokenTotalTx, Len(nativeReady))
            /\ EngineSenders[k] \in Range(tokenReadyIndexes)

----------------------------------------------------------------------------
(* Claims about construction against signing and funding *)

\* C21: the account whose wallet signs the transaction at position i,
\* accounts[i mod |accounts|], is the account whose address
\* ConstructTransactions put into it, so that all N transactions get signed
\* when no signing fails for another reason.
C21_SignerIsConstructedSender ==
    enginePc \in {"constructed", "signed", "sent"} =>
        \A i \in 1..Len(rawTransactions) :
            rawTransactions[i].from
                = accounts[((i - 1) % Len(accounts)) + 1].address

\* the most a transaction can cost its sender: gasLimit * gasPrice + value
MaxCharge(t) == t.gasLimit * t.gasPrice + t.value

RECURSIVE SumCharge(_)
SumCharge(txs) ==
    IF txs = <<>> THEN 0 ELSE MaxCharge(Head(txs)) + SumCharge(Tail(txs))

\* C22: the transactions ConstructTransactions assigns to one account cost
\* together at most R = N * (P * G + V), the balance the native distributor
\* funds every ready account to.
C22_FundingCoversAssignedCost ==
    enginePc \in {"constructed", "signed", "sent"} =>
        \A k \in 1..Len(accounts) :
            SumCharge(SelectSeq(rawTransactions,
                                LAMBDA t : t.from = accounts[k].address))
                <= numTxs * (gasPrice * gasEstimation + GetValue(mode))

\* C23: in ERC-20 mode the transfers of 1 token that ConstructTransactions
\* assigns to one sender are at most ceil(N / K), the token balance the
\* token distributor brings each of the K ready accounts to.
C23_TransfersWithinTokenBalance ==
    (mode = "ERC20" /\ enginePc \in {"constructed", "signed", "sent"}) =>
        \A k \in 1..Len(accounts) :
            Len(SelectSeq(rawTransactions,
                          LAMBDA t : t.from = accounts[k].address))
                    * defaultTransferValue
                <= tokenRuntimeCosts(numTxs, accountIndexes).subAccount

\* the number of transactions before position i that have the sender of the
\* transaction at position i
EarlierFromSameSender(txs, i) ==
    Cardinality({p \in 1..(i - 1) : txs[p].from = txs[i].from})

\* C24: in EOA mode transaction i (0 <= i < N) goes from accounts[i mod K]
\* to accounts[(i + 1) mod K] with value V, gas price P, gas limit G and the
\* sender's nonce at that moment, which is then incremented.
C24_EOARoundRobin ==
    (mode = "EOA" /\ enginePc \in {"constructed", "signed", "sent"}) =>
        \A i \in 0..(Len(rawTransactions) - 1) :
            LET K == Len(accounts)
                t == rawTransactions[i + 1]
                sender == accounts[(i % K) + 1]
                receiver == accounts[((i + 1) % K) + 1]
            IN /\ t.from = sender.address
               /\ t.to = receiver.address
               /\ t.value = defaultValue
               /\ t.gasPrice = gasPrice
               /\ t.gasLimit = gasEstimation
               /\ t.nonce = chainNonce[sender.mnemonicIndex]
                               + EarlierFromSameSender(rawTransactions, i + 1)

\* the account a workload transaction transfers to
ReceiverOf(t) == IF t.tokenTo # NoAddress THEN t.tokenTo ELSE t.to

\* C25: with at least two sender accounts no EOA or ERC-20 transaction
\* transfers from an account to itself.
C25_NoSelfTransfer ==
    (/\ mode \in {"EOA", "ERC20"}
     /\ enginePc \in {"constructed", "signed", "sent"}
     /\ Len(accounts) >= 2) =>
        \A i \in 1..Len(rawTransactions) :
            ReceiverOf(rawTransactions[i]) # rawTransactions[i].from

RequiredBalance == totalTx * (gasPrice * gasEstimation + GetValue(mode))

\* C27: calculateRuntimeCosts computes the per-sub-account balance
\* R = N * (P * G + V) from the total transaction count, and
\* findAccountsForDistribution puts index i of 1..K on the funding plan,
\* with shortfall R - balance > 0, exactly when its balance is below R, and
\* into the ready list otherwise.
C27_RequiredBalanceAndPlan ==
    [][/\ (distPc = "start" /\ distPc' = "costs")
          => baseCosts'.subAccount = RequiredBalance
       /\ (distPc = "costs" /\ distPc' # "costs")
          => \A i \in 1..requestedSubAccounts :
                /\ balance[i] < RequiredBalance
                   <=> \E p \in 1..Len(shortAddresses') :
                          /\ shortAddresses'[p].mnemonicIndex = i
                          /\ shortAddresses'[p].missingFunds
                                = RequiredBalance - balance[i]
                          /\ shortAddresses'[p].missingFunds > 0
                /\ balance[i] >= RequiredBalance
                   <=> i \in Range(readyMnemonicIndexes')
                /\ Cardinality({p \in 1..Len(shortAddresses') :
                        shortAddresses'[p].mnemonicIndex = i})
                     + Cardinality({p \in 1..Len(readyMnemonicIndexes') :
                        readyMnemonicIndexes'[p] = i}) = 1]_vars

----------------------------------------------------------------------------
(* Claims about the lists the distributors return *)

\* C28: the list distribute() returns is in ascending order without
\* duplicates.
C28_ReadyListSorted ==
    distPc = "done" =>
        \A p, q \in 1..Len(readyMnemonicIndexes) :
            p < q => readyMnemonicIndexes[p] < readyMnemonicIndexes[q]

----------------------------------------------------------------------------
(* Claims about signing *)

\* the transactions of txs at the positions outside failed, in list order
RECURSIVE KeptInOrder(_, _, _)
KeptInOrder(txs, failed, i) ==
    IF i > Len(txs) THEN <<>>
    ELSE (IF i \in failed THEN <<>> ELSE <<txs[i]>>)
         \o KeptInOrder(txs, failed, i + 1)

\* C30: signTransactions returns exactly the transactions whose signing did
\* not fail, in their original relative order; a failure is recorded and
\* skipped, so the output has N minus the number of failures elements.
C30_SignedAreTheSucceeded ==
    enginePc \in {"signed", "sent"} =>
        /\ signedTransactions = KeptInOrder(rawTransactions, signFailures, 1)
        /\ Len(signedTransactions)
              = Len(rawTransactions) - Cardinality(signFailures)
        /\ signErrors = Cardinality(signFailures)

C30_Witness ==
    /\ enginePc = "signed"
    /\ Len(rawTransactions) = 4
    /\ signFailures = {2}
    /\ Len(signedTransactions) = 3

----------------------------------------------------------------------------
(* C31: when a batched receipt sweep has been read, a requested hash is    *)
(* kept outstanding exactly when the response object carrying the id of    *)
(* that hash's request has no result, in whatever order the node returned  *)
(* the response objects of a batch                                         *)

\* the response object of the sweep that carries id
ResponseWithId(id) ==
    LET items == Flatten(receiptResponses)
    IN items[CHOOSE k \in DOMAIN items : items[k].id = id]

C31_OutstandingByOwnResponse ==
    [][(collectorPc = "posted" /\ collectorPc' \in {"fallback", "waitBlock"})
        => LET hs == Flatten(receiptBatches)
           IN \A p \in DOMAIN hs :
                 (hs[p] \in Range(remainingTransactions'))
                    <=> ~ResponseWithId(p - 1).hasResult]_vars

----------------------------------------------------------------------------
(* C32: when batchTransactions has returned, no batch POST that it         *)
(* dispatched is still in flight: every one has resolved or has failed     *)

C32_NoPostInFlightAtReturn ==
    batcherPc = "returned" =>
        \A b \in DOMAIN postState : postState[b] # "inflight"

----------------------------------------------------------------------------
(* C33: when every batch POST has succeeded, the hash list returned by     *)
(* batchTransactions holds the hashes of the accepted transactions in the  *)
(* order in which the transactions were submitted (batch by batch, then by *)
(* position in the batch), whatever the order in which the responses       *)
(* arrived, and every response element is in exactly one of the hash list  *)
(* and the error list                                                      *)

\* the positions in signedTxs of the transactions the node accepted
AcceptedPositions ==
    LET items == Flatten(responses)
    IN {k \in DOMAIN items : "error" \notin DOMAIN items[k]}

----------------------------------------------------------------------------
(* C34: for N >= 1 hashes the batched phase of gatherTransactionReceipts   *)
(* makes at least 1 and at most ceil(0.025 * N) sweeps, makes no sweep     *)
(* once no hash is outstanding, waits for exactly one block event between  *)
(* two consecutive sweeps and for none after the last, and the sweep loop  *)
(* comes to an end when every awaited block event arrives                  *)

\* the sweeps that have been read so far
SweepsDone == RetryBudget(Len(submittedHashes)) - retryCounter

SweepLoopOver == collectorPc \in {"fallback", "done", "failed"}

C34_Budget ==
    /\ collectorPc \in {"sweep", "posted", "waitBlock"} =>
          /\ retryCounter >= 1
          /\ remainingTransactions # <<>>
    /\ collectorPc \in {"fallback", "done"} =>
          /\ SweepsDone >= 1
          /\ SweepsDone <= RetryBudget(Len(submittedHashes))
          /\ (remainingTransactions = <<>> \/ retryCounter = 0)

C34_Pacing ==
    [][/\ (collectorPc' = "sweep" /\ collectorPc # "sweep")
            => (collectorPc = "waitBlock" /\ chainHeight' = chainHeight + 1)
       /\ (collectorPc = "waitBlock" /\ collectorPc' # "waitBlock")
            => collectorPc' = "sweep"
       /\ (collectorPc = "posted" /\ collectorPc' = "waitBlock")
            => (remainingTransactions' # <<>> /\ retryCounter' >= 1)
       /\ (collectorPc = "posted" /\ collectorPc' = "fallback")
            => (remainingTransactions' = <<>> \/ retryCounter' = 0)
       /\ SweepLoopOver => SweepLoopOver']_vars

C34_SweepLoop == []C34_Budget /\ C34_Pacing /\ <>SweepLoopOver

\* a second sweep was read, one block after the first
C34_Witness ==
    /\ collectorPc = "fallback"
    /\ SweepsDone = 2
    /\ RetryBudget(Len(submittedHashes)) = 2

----------------------------------------------------------------------------
(* C35: every batched sweep that is read splits the hashes that were       *)
(* outstanding before it into the hashes it records as succeeded and the   *)
(* hashes it keeps outstanding, none lost and none in both; no hash is     *)
(* recorded as succeeded twice, and the individual polling takes only      *)
(* hashes that were still outstanding after the last sweep                 *)

SucceededHashes(sts) == {sts[i].txHash : i \in DOMAIN sts}

\* the hashes that the step appends to succeededTransactions
NewlySucceeded ==
    {succeededTransactions'[i].txHash :
        i \in (Len(succeededTransactions) + 1)..Len(succeededTransactions')}

C35_SweepStep ==
    (collectorPc = "posted" /\ collectorPc' \in {"fallback", "waitBlock"})
    => /\ Range(remainingTransactions) =
             NewlySucceeded \cup Range(remainingTransactions')
       /\ NewlySucceeded \cap Range(remainingTransactions') = {}
       /\ Len(remainingTransactions) =
             Len(remainingTransactions')
                + Len(succeededTransactions') - Len(succeededTransactions)
       /\ SubSeq(succeededTransactions', 1, Len(succeededTransactions))
             = succeededTransactions

C35_PollStep ==
    (collectorPc = "fallback" /\ succeededTransactions' # succeededTransactions)
    => /\ NewlySucceeded = {remainingTransactions[polled + 1]}
       /\ NewlySucceeded \cap SucceededHashes(succeededTransactions) = {}
       /\ remainingTransactions' = remainingTransactions

C35_NoneTwice ==
    Cardinality(SucceededHashes(succeededTransactions))
        = Len(succeededTransactions)

----------------------------------------------------------------------------
(* C36: a rejected POST of a receipt batch, or a waitForTransaction that   *)
(* runs into its 30 seconds, does not end the collection: the error is in  *)
(* the collector's error list and gatherTransactionReceipts goes on to     *)
(* return the receipts it obtained                                         *)

C36_TransientFailureNotFatal ==
    collectorPc = "failed" =>
        /\ collectorError.kind \notin {"post", "timeout"}
        /\ fetchErrors # <<>>

----------------------------------------------------------------------------
(* C38: the timer of the mempool-drain wait runs for the larger of 5       *)
(* seconds and 500 ms per submitted transaction: when the wait has timed   *)
(* out, at least 5 seconds have passed, and the poller, which pauses 2     *)
(* seconds after a poll, has had the time for a second poll                *)

\* the milliseconds that have passed since waitForTxPoolToEmpty was called
ElapsedMs == clock * TickMs

C38_TimeoutAtLeastFiveSeconds ==
    isOk = "false" =>
        /\ ElapsedMs >= 5 * 1000
        /\ ElapsedMs >= Len(submittedHashes) * 500

----------------------------------------------------------------------------
(* C39: waitForTxPoolToEmpty comes to an end whatever the node does with   *)
(* the polls: it returns true at the first poll that reports pending 0 and *)
(* queued 0, and false when the timer has run out before; once the timer   *)
(* has fired the poller starts no further poll                             *)

PoolWaitOver == isOk \in {"true", "false"}

C39_State ==
    /\ isOk = "racing" => ~(StrictlyZero(pending) /\ StrictlyZero(queued))
    /\ isOk = "true" => StrictlyZero(pending) /\ StrictlyZero(queued)
    /\ isOk = "false" =>
          /\ stopFlag
          /\ ElapsedMs >= Len(submittedHashes) * 500

C39_Step ==
    /\ (isOk = "racing" /\ isOk' = "true") =>
          (pollPc = "polling" /\ pollPc' = "returned")
    /\ (isOk = "racing" /\ isOk' = "false") =>
          ElapsedMs = Len(submittedHashes) * 500
    /\ PoolWaitOver => isOk' = isOk
    /\ (stopFlag /\ pollPc # "polling") => pollPc' # "polling"

----------------------------------------------------------------------------
(* C37: when every constructed transaction was signed and every batch      *)
(* reaches the node, in whatever order, all the transactions get executed  *)
(* and the pool of the node gets empty (pending 0, queued 0); once all     *)
(* batches have arrived no transaction waits behind a missing nonce        *)

AllSignedAndSent == enginePc = "sent" /\ signErrors = 0

C37_NoGapOnceArrived ==
    (AllSignedAndSent /\ arrived = DOMAIN requests) => NodeQueued = {}

PoolReconciled ==
    /\ arrived = DOMAIN requests
    /\ NodePending = {} /\ NodeQueued = {}
    /\ executed = {<<rawTransactions[i].from, rawTransactions[i].nonce>> :
                      i \in DOMAIN rawTransactions}
    /\ Cardinality(executed) = Len(rawTransactions)

C37_NonceGapsReconcile ==
    []C37_NoGapOnceArrived /\ (AllSignedAndSent ~> PoolReconciled)

\* a batch arrived before an earlier one, and a transaction of it waits for
\* a nonce of the batch still under way
C37_Witness ==
    /\ AllSignedAndSent
    /\ \E b \in arrived : \E a \in DOMAIN requests : a < b /\ a \notin arrived
    /\ NodeQueued # {}

====
